---- MODULE Spec2Model ----
(***************************************************************************)
(* A model of the storage and query core of vctsdb: the write-ahead log    *)
(* (storage/wal.rs), the MemTable, SSTable and FlushManager (storage/lsm)  *)
(* and the parallel QueryExecutor (query/executor.rs).                     *)
(*                                                                         *)
(* Files are modelled as sequences of bytes (0..255); strings are the      *)
(* sequences of their UTF-8 bytes.  An f64 is modelled by its IEEE-754     *)
(* bit pattern, as the eight bytes f64::to_le_bytes produces.              *)
(***************************************************************************)
EXTENDS Integers, Sequences, FiniteSets, TLC

(***************************************************************************)
(* Bounds of the model.                                                    *)
(***************************************************************************)
MaxWalWrites == 2      \* calls of WriteAheadLog::write in one behaviour
MaxClock == 1          \* seconds the wall clock may advance
MaxWalFaults == 1      \* injected I/O failures in one behaviour
StartClock == 1700000000   \* SystemTime::now() at the start, unix seconds
SmallSegmentAge == 1   \* a max_segment_age the clock of the model reaches
MaxSstBlocks == 3      \* calls of write_block on one SSTable, SSTable alone
MaxTables == 2         \* SSTables created in one behaviour
MaxQueryBlocks == 1    \* calls of write_block on one SSTable, under the executor
MaxInserts == 3        \* successful calls of MemTable::insert in one behaviour
MemCapacity == 2       \* MemTable::new(capacity)
MaxMemCalls == 4       \* calls of the MemTable by tasks running together
MaxFlushes == 2        \* flush tasks started in one behaviour
MaxQueryFlushes == 1   \* flush tasks started in one behaviour with queries
MaxCatalogBlocks == 2  \* blocks written to the file of one SSTable given to the catalog

(***************************************************************************)
(* Program constants.                                                      *)
(***************************************************************************)
DEFAULT_SEGMENT_SIZE == 67108864
DEFAULT_SEGMENT_DURATION == 86400
TestSegmentSize == 50
DefaultMemoryLimit == 1073741824
DefaultMaxConcurrentTasks == 4
SizeOfDataPoint == 64

(***************************************************************************)
(* Bytes.                                                                  *)
(***************************************************************************)
RECURSIVE XorBits(_, _, _)
XorBits(a, b, n) ==
  IF n = 0 THEN 0
  ELSE (((a % 2) + (b % 2)) % 2) + 2 * XorBits(a \div 2, b \div 2, n - 1)

\* The xor of two 4-bit numbers, tabulated.
XorNibble == [a \in 0..15 |-> [b \in 0..15 |-> XorBits(a, b, 4)]]

\* a ^ b on u8
Xor8(a, b) == (XorNibble[a \div 16][b \div 16] * 16) + XorNibble[a % 16][b % 16]

\* CRC_32_ISCSI (CRC32C): reflected polynomial 0x82F63B78, little-endian bytes;
\* initial value and final xor 0xFFFFFFFF.  A u32 is its four bytes, low first.
CrcPoly == <<120, 59, 246, 130>>

CrcShr1(c) ==
  [k \in 1..4 |-> (c[k] \div 2) + (IF k < 4 THEN (c[k + 1] % 2) * 128 ELSE 0)]

RECURSIVE CrcShift(_, _)
CrcShift(c, n) ==
  IF n = 0 THEN c
  ELSE CrcShift(IF c[1] % 2 = 1
                THEN [k \in 1..4 |-> Xor8(CrcShr1(c)[k], CrcPoly[k])]
                ELSE CrcShr1(c), n - 1)

CrcTable == [i \in 0..255 |-> CrcShift(<<i, 0, 0, 0>>, 8)]

CrcStep(c, d) ==
  LET t == CrcTable[Xor8(c[1], d)]
  IN  <<Xor8(t[1], c[2]), Xor8(t[2], c[3]), Xor8(t[3], c[4]), t[4]>>

\* The CRC register after the bytes lo..hi, from register c.  The fold is
\* split in halves, and the test of the left half's register makes TLC
\* compute it before the right half, to keep the evaluation shallow.
RECURSIVE CrcFold(_, _, _, _)
CrcFold(c, bytes, lo, hi) ==
  IF lo > hi THEN c
  ELSE IF lo = hi THEN CrcStep(c, bytes[lo])
  ELSE LET mid == (lo + hi) \div 2
           left == CrcFold(c, bytes, lo, mid)
       IN  IF Len(left) = 4 THEN CrcFold(left, bytes, mid + 1, hi) ELSE left

\* digest(); update(bytes); finalize(); to_le_bytes()
Crc32c(bytes) ==
  LET c == CrcFold(<<255, 255, 255, 255>>, bytes, 1, Len(bytes))
  IN  <<255 - c[1], 255 - c[2], 255 - c[3], 255 - c[4]>>

\* Decimal text of a non-negative integer (itoa, as serde_json writes an i64/u64).
RECURSIVE Dec(_)
Dec(n) == IF n < 10 THEN <<48 + n>> ELSE Dec(n \div 10) \o <<48 + (n % 10)>>

\* Number of bytes of the UTF-8 sequence a lead byte opens (0: no lead byte).
Utf8Width(c) ==
  CASE c < 128 -> 1
    [] c >= 194 /\ c <= 223 -> 2
    [] c >= 224 /\ c <= 239 -> 3
    [] c >= 240 /\ c <= 244 -> 4
    [] OTHER -> 0

\* std::str::from_utf8(b).is_ok(), the check read_line makes: the first byte
\* is a lead byte, every lead byte is followed by its continuation bytes (the
\* first of them in the range that excludes overlong forms, surrogates and
\* code points above U+10FFFF) and then by another lead byte or the end.
Utf8Valid(b) ==
  \A i \in 1..Len(b) :
    LET c == b[i]
        w == Utf8Width(c)
        IsCont(k) == k <= Len(b) /\ b[k] >= 128 /\ b[k] <= 191
        lo2 == CASE c = 224 -> 160 [] c = 240 -> 144 [] OTHER -> 128
        hi2 == CASE c = 237 -> 159 [] c = 244 -> 143 [] OTHER -> 191
    IN  IF c >= 128 /\ c <= 191
        THEN i > 1      \* a continuation byte: its lead byte vouches for it
        ELSE /\ w > 0
             /\ \A k \in (i + 1)..(i + w - 1) : IsCont(k)
             /\ w > 1 => (b[i + 1] >= lo2 /\ b[i + 1] <= hi2)
             /\ ~IsCont(i + w)

\* ASCII white space, the only white space the files of this model hold.
IsSpace(c) == c \in {9, 10, 11, 12, 13, 32}

RECURSIVE TrimStart(_)
TrimStart(s) ==
  IF s # <<>> /\ IsSpace(s[1]) THEN TrimStart(Tail(s)) ELSE s

RECURSIVE TrimEnd(_)
TrimEnd(s) ==
  IF s # <<>> /\ IsSpace(s[Len(s)]) THEN TrimEnd(SubSeq(s, 1, Len(s) - 1)) ELSE s

\* str::trim
Trim(s) == TrimEnd(TrimStart(s))

\* Index of the first 0x0A at or after pos, or Len(bytes) when there is none:
\* the last byte BufRead::read_line consumes.
LineEnd(bytes, pos) ==
  LET nl == {i \in pos..Len(bytes) : bytes[i] = 10}
  IN  IF nl = {} THEN Len(bytes) ELSE CHOOSE i \in nl : \A j \in nl : i <= j

(***************************************************************************)
(* Data points (storage/data.rs).                                          *)
(***************************************************************************)
SeriesA == <<97>>                          \* "a"
SeriesB == <<98>>                          \* "b"
F64One == <<0, 0, 0, 0, 0, 0, 240, 63>>    \* 1.0
F64Two == <<0, 0, 0, 0, 0, 0, 0, 64>>      \* 2.0
F64NaN == <<0, 0, 0, 0, 0, 0, 248, 127>>   \* f64::NAN
TagsNone == {}                             \* HashMap::new()
TagsKV == {<<(<<107>>), (<<118>>)>>}       \* {"k": "v"}

\* f64::is_finite: the exponent bits are not all ones.
IsFinite(v) == ((v[8] % 128) * 16) + (v[7] \div 16) # 2047

(***************************************************************************)
(* serde_json text of the WAL structs, compact, fields in declaration      *)
(* order.                                                                  *)
(***************************************************************************)
\* serialize_f64: a non-finite value is written as null, a finite one in its
\* shortest round-trip decimal form.
F64Json(v) ==
  CASE v = F64One -> <<49, 46, 48>>                 \* 1.0
    [] v = F64Two -> <<50, 46, 48>>                 \* 2.0
    [] ~IsFinite(v) -> <<110, 117, 108, 108>>       \* null

\* A string of plain ASCII letters in quotes.
JsonStr(str) == <<34>> \o str \o <<34>>

\* HashMap<String, String> of at most one pair.
TagsJson(tags) ==
  IF tags = {} THEN <<123, 125>>
  ELSE LET kv == CHOOSE x \in tags : TRUE
       IN  <<123>> \o JsonStr(kv[1]) \o <<58>> \o JsonStr(kv[2]) \o <<125>>

\* serde_json::to_string(&WalEntry { series_name, timestamp, value, tags, crc: 0 })
EntryJson(e) ==
  <<123, 34, 115, 101, 114, 105, 101, 115, 95, 110, 97, 109, 101, 34, 58>>  \* {"series_name":
  \o JsonStr(e.series_name)
  \o <<44, 34, 116, 105, 109, 101, 115, 116, 97, 109, 112, 34, 58>>         \* ,"timestamp":
  \o Dec(e.timestamp)
  \o <<44, 34, 118, 97, 108, 117, 101, 34, 58>>                             \* ,"value":
  \o F64Json(e.value)
  \o <<44, 34, 116, 97, 103, 115, 34, 58>>                                  \* ,"tags":
  \o TagsJson(e.tags)
  \o <<44, 34, 99, 114, 99, 34, 58, 48, 125>>                               \* ,"crc":0}

\* serde_json::to_writer(&WalHeader { magic: WAL_MAGIC, version: WAL_VERSION, created_at })
HeaderJson(t) ==
  <<123, 34, 109, 97, 103, 105, 99, 34, 58>>                                \* {"magic":
  \o <<49, 52, 54, 51, 56, 57, 55, 48, 56, 56>>                             \* 1463897088 = 0x57414C00
  \o <<44, 34, 118, 101, 114, 115, 105, 111, 110, 34, 58, 49>>              \* ,"version":1
  \o <<44, 34, 99, 114, 101, 97, 116, 101, 100, 95, 97, 116, 34, 58>>       \* ,"created_at":
  \o Dec(t) \o <<125>>

\* The points the callers of the WAL write: DataPoint::new takes any
\* timestamp, value and tags.  The CRC bytes of the third are no UTF-8 text,
\* those of the fourth are.
WalPoints ==
  { [series_name |-> SeriesA, timestamp |-> 0, value |-> F64One, tags |-> TagsNone],
    [series_name |-> SeriesB, timestamp |-> 1, value |-> F64Two, tags |-> TagsKV],
    [series_name |-> SeriesA, timestamp |-> 1, value |-> F64NaN, tags |-> TagsNone],
    [series_name |-> SeriesA, timestamp |-> 0, value |-> F64NaN, tags |-> TagsKV] }

\* The JSON text of each point of the model, tabulated.
EntryText == [e \in WalPoints |-> EntryJson(e)]

\* The CRC of each entry text, without and with the line's newline, tabulated.
EntryCrc ==
  [t \in {EntryText[e] : e \in WalPoints} \cup {EntryText[e] \o <<10>> : e \in WalPoints}
     |-> Crc32c(t)]

\* self.crc.digest(); update(text); finalize(), by the table where it has the text
Crc(text) == IF text \in DOMAIN EntryCrc THEN EntryCrc[text] ELSE Crc32c(text)

\* serde_json::from_str::<WalEntry>: the texts it accepts are those that decode
\* to an entry; a null value is no f64.  White space around the object is
\* skipped.
EntryTexts(text) == {e \in WalPoints : IsFinite(e.value) /\ EntryText[e] = Trim(text)}
CanParseEntry(text) == EntryTexts(text) # {}
ParseEntry(text) == CHOOSE e \in EntryTexts(text) : TRUE

\* serde_json::from_str::<WalHeader> followed by the magic and version checks.
CanParseHeader(text) ==
  \E t \in StartClock..(StartClock + MaxClock) : HeaderJson(t) = Trim(text)


(***************************************************************************)
(* Little-endian integers (to_le_bytes, from_le_bytes).  The model's       *)
(* integers are those of 30 bits; a decoded value beyond them is           *)
(* represented by the nearest power of two, which equals no value the      *)
(* model writes and exceeds every file length and query range.             *)
(***************************************************************************)
\* u32::to_le_bytes
U32Bytes(n) ==
  <<n % 256, (n \div 256) % 256, (n \div 65536) % 256, (n \div 16777216) % 256>>

\* u32::from_le_bytes
U32Val(b) ==
  IF b[4] >= 64 THEN 1073741824
  ELSE b[1] + (256 * b[2]) + (65536 * b[3]) + (16777216 * b[4])

\* i64::to_le_bytes, two's complement
I64Bytes(n) ==
  IF n >= 0 THEN U32Bytes(n) \o <<0, 0, 0, 0>>
  ELSE [k \in 1..8 |-> 255 - (U32Bytes((-n) - 1) \o <<0, 0, 0, 0>>)[k]]

\* i64::from_le_bytes
I64Val(b) ==
  IF b[5] = 0 /\ b[6] = 0 /\ b[7] = 0 /\ b[8] = 0 /\ b[4] < 32
  THEN U32Val(SubSeq(b, 1, 4))
  ELSE IF b[5] = 255 /\ b[6] = 255 /\ b[7] = 255 /\ b[8] = 255 /\ b[4] >= 224
  THEN (-U32Val([k \in 1..4 |-> 255 - b[k]])) - 1
  ELSE IF b[8] >= 128 THEN -536870912 ELSE 536870912

\* The concatenation of a sequence of byte strings.
RECURSIVE Concat(_)
Concat(ss) == IF Len(ss) = 0 THEN <<>> ELSE Head(ss) \o Concat(Tail(ss))

(***************************************************************************)
(* SSTable file format (storage/lsm/sstable.rs).                           *)
(***************************************************************************)
\* SSTABLE_MAGIC.to_le_bytes() and SSTABLE_VERSION.to_le_bytes(): "BTSS", 1
SstHeader == <<66, 84, 83, 83, 1, 0, 0, 0>>

\* DataBlock
Block(start, deltas, values, names, tags) ==
  [start_timestamp |-> start, timestamp_deltas |-> deltas, values |-> values,
   series_names |-> names, tags |-> tags]

\* The maps of tags of the model.
TagSets == {TagsNone, TagsKV}

\* A length as u32 and the bytes.
LenPrefixed(bytes) == U32Bytes(Len(bytes)) \o bytes

\* write_block_data: the bytes written for a block, whatever the lengths of
\* its vectors.
BlockBytes(b) ==
  I64Bytes(b.start_timestamp)
  \o U32Bytes(Len(b.timestamp_deltas))
  \o Concat([k \in 1..Len(b.timestamp_deltas) |-> I64Bytes(b.timestamp_deltas[k])])
  \o Concat(b.values)
  \o Concat([k \in 1..Len(b.series_names) |-> LenPrefixed(b.series_names[k])])
  \o Concat([k \in 1..Len(b.tags) |-> LenPrefixed(TagsJson(b.tags[k]))])

\* File::read_exact of n bytes at offset pos succeeds.
CanRead(file, pos, n) == pos + n <= Len(file)

\* The n bytes at offset pos.
BytesAt(file, pos, n) == SubSeq(file, pos + 1, pos + n)

\* The loop reading k length-prefixed series names.  [res, out, pos]; a
\* read_exact that meets the end of the file leaves the position there.  (The
\* allocation of the buffer of the length read is taken to succeed.)
RECURSIVE ReadNames(_, _, _, _)
ReadNames(file, pos, k, out) ==
  IF k = 0 THEN [res |-> "Ok", out |-> out, pos |-> pos]
  ELSE IF ~CanRead(file, pos, 4) THEN [res |-> "Io", out |-> out, pos |-> Len(file)]
  ELSE
    LET len == U32Val(BytesAt(file, pos, 4))
    IN  IF len > Len(file) \/ ~CanRead(file, pos + 4, len)
        THEN [res |-> "Io", out |-> out, pos |-> Len(file)]
        ELSE IF ~Utf8Valid(BytesAt(file, pos + 4, len))
        THEN [res |-> "Utf8", out |-> out, pos |-> pos + 4 + len]
        ELSE ReadNames(file, pos + 4 + len, k - 1, Append(out, BytesAt(file, pos + 4, len)))

\* serde_json::from_slice::<HashMap<String, String>>: the maps whose text the
\* bytes are.
TagsOfJson(bytes) == {t \in TagSets : TagsJson(t) = Trim(bytes)}

\* The loop reading k length-prefixed JSON maps of tags.  [res, out, pos]
RECURSIVE ReadTags(_, _, _, _)
ReadTags(file, pos, k, out) ==
  IF k = 0 THEN [res |-> "Ok", out |-> out, pos |-> pos]
  ELSE IF ~CanRead(file, pos, 4) THEN [res |-> "Io", out |-> out, pos |-> Len(file)]
  ELSE
    LET len == U32Val(BytesAt(file, pos, 4))
    IN  IF len > Len(file) \/ ~CanRead(file, pos + 4, len)
        THEN [res |-> "Io", out |-> out, pos |-> Len(file)]
        ELSE IF TagsOfJson(BytesAt(file, pos + 4, len)) = {}
        THEN [res |-> "Json", out |-> out, pos |-> pos + 4 + len]
        ELSE ReadTags(file, pos + 4 + len, k - 1,
                      Append(out, CHOOSE t \in TagsOfJson(BytesAt(file, pos + 4, len)) : TRUE))

\* The block of a failed read.
NoBlock == Block(0, <<>>, <<>>, <<>>, <<>>)

\* read_block_data, the tags read: the block, or the error of the tags.
\* [res, block, pos]
ReadBlockEnd(file, pos, n, names, tags) ==
  IF tags.res # "Ok" THEN [res |-> tags.res, block |-> NoBlock, pos |-> tags.pos]
  ELSE [res |-> "Ok",
        block |-> Block(I64Val(BytesAt(file, pos, 8)),
                        [k \in 1..n |-> I64Val(BytesAt(file, pos + 12 + (8 * (k - 1)), 8))],
                        [k \in 1..n |-> BytesAt(file, pos + 12 + (8 * n) + (8 * (k - 1)), 8)],
                        names.out, tags.out),
        pos |-> tags.pos]

\* read_block_data, the series names read: their error, or on to the tags.
ReadBlockTags(file, pos, n, names) ==
  IF names.res # "Ok" THEN [res |-> names.res, block |-> NoBlock, pos |-> names.pos]
  ELSE ReadBlockEnd(file, pos, n, names, ReadTags(file, names.pos, n, <<>>))

\* read_block_data at offset pos, point_count from the metadata.
\* [res, block, pos]
ReadBlockData(file, pos, point_count) ==
  IF ~CanRead(file, pos, 12) THEN [res |-> "Io", block |-> NoBlock, pos |-> Len(file)]
  ELSE IF U32Val(BytesAt(file, pos + 8, 4)) # point_count      \* "Point count mismatch"
  THEN [res |-> "Io", block |-> NoBlock, pos |-> pos + 12]
  ELSE IF ~CanRead(file, pos + 12, 16 * point_count)
  THEN [res |-> "Io", block |-> NoBlock, pos |-> Len(file)]
  ELSE ReadBlockTags(file, pos, point_count,
                     ReadNames(file, pos + 12 + (16 * point_count), point_count, <<>>))

\* i64::MAX and i64::MIN, the extremes of an empty table, and a timestamp.
I64Max == [far |-> 1, at |-> 0]
I64Min == [far |-> -1, at |-> 0]
Ts(t) == [far |-> 0, at |-> t]

\* i64::min, i64::max on these
MinTs(x, y) ==
  IF x.far # y.far THEN (IF x.far < y.far THEN x ELSE y)
  ELSE IF x.at <= y.at THEN x ELSE y
MaxTs(x, y) == IF MinTs(x, y) = x THEN y ELSE x

\* SSTableMetadata of a table without blocks
EmptyMeta ==
  [point_count |-> 0, min_timestamp |-> I64Max, max_timestamp |-> I64Min,
   series_names |-> <<>>, blocks |-> <<>>]

\* The names, and after them those of more that they do not contain yet.
RECURSIVE PushNew(_, _)
PushNew(names, more) ==
  IF Len(more) = 0 THEN names
  ELSE PushNew(IF \E k \in 1..Len(names) : names[k] = Head(more)
               THEN names ELSE Append(names, Head(more)),
               Tail(more))

\* The file with the bytes written at offset pos.
WriteAt(file, pos, bytes) ==
  SubSeq(file, 1, pos) \o bytes \o SubSeq(file, pos + Len(bytes) + 1, Len(file))

\* An SSTable is [file, pos, meta, wrote, since]: the bytes of its file, the
\* position of its file handle, its metadata, and for the statement of
\* properties the blocks handed to write_block for this file so far and how
\* many of them there were when the file was opened.
\* SSTable::new on a new path
NewSSTable ==
  [file |-> SstHeader, pos |-> Len(SstHeader), meta |-> EmptyMeta,
   wrote |-> <<>>, since |-> 0]

\* SSTable::open.  [res, sst]
OpenSSTable(t) ==
  IF ~CanRead(t.file, 0, 4) THEN [res |-> "Io", sst |-> t]
  ELSE IF BytesAt(t.file, 0, 4) # SubSeq(SstHeader, 1, 4) THEN [res |-> "InvalidMagic", sst |-> t]
  ELSE IF ~CanRead(t.file, 4, 4) THEN [res |-> "Io", sst |-> t]
  ELSE IF BytesAt(t.file, 4, 4) # SubSeq(SstHeader, 5, 8)
  THEN [res |-> "UnsupportedVersion", sst |-> t]
  ELSE [res |-> "Ok",
        sst |-> [file |-> t.file, pos |-> Len(t.file), meta |-> EmptyMeta,
                 wrote |-> t.wrote, since |-> Len(t.wrote)]]

\* write_block taking the offset of the block after the bytes are written
\* (stream_position() called behind write_block_data).
WriteBlockOffsetBehind(t, b) ==
  LET n == Len(b.timestamp_deltas)
      last == IF n = 0 THEN 0 ELSE b.timestamp_deltas[n]
      bytes == BlockBytes(b)
  IN  [file |-> WriteAt(t.file, t.pos, bytes),
       pos |-> t.pos + Len(bytes),
       meta |-> [point_count |-> t.meta.point_count + n,
                 min_timestamp |-> MinTs(t.meta.min_timestamp, Ts(b.start_timestamp)),
                 max_timestamp |-> MaxTs(t.meta.max_timestamp, Ts(b.start_timestamp + last)),
                 series_names |-> PushNew(t.meta.series_names, b.series_names),
                 blocks |-> Append(t.meta.blocks,
                                   [offset |-> t.pos + Len(bytes), point_count |-> n,
                                    start_timestamp |-> b.start_timestamp])],
       wrote |-> Append(t.wrote, b),
       since |-> t.since]

\* write_block: the metadata, then the bytes at the position of the handle.
WriteBlock(t, b) ==
  LET n == Len(b.timestamp_deltas)
      last == IF n = 0 THEN 0 ELSE b.timestamp_deltas[n]
      bytes == BlockBytes(b)
  IN  [file |-> WriteAt(t.file, t.pos, bytes),
       pos |-> t.pos + Len(bytes),
       meta |-> [point_count |-> t.meta.point_count + n,
                 min_timestamp |-> MinTs(t.meta.min_timestamp, Ts(b.start_timestamp)),
                 max_timestamp |-> MaxTs(t.meta.max_timestamp, Ts(b.start_timestamp + last)),
                 series_names |-> PushNew(t.meta.series_names, b.series_names),
                 blocks |-> Append(t.meta.blocks,
                                   [offset |-> t.pos, point_count |-> n,
                                    start_timestamp |-> b.start_timestamp])],
       wrote |-> Append(t.wrote, b),
       since |-> t.since]

\* read_block: what read_block_data returned, the handle where it stopped.
ReadBlockResult(t, r) == [res |-> r.res, block |-> r.block, sst |-> [t EXCEPT !.pos = r.pos]]

\* read_block(index), index from 0.  [res, block, sst]
ReadBlock(t, index) ==
  IF index >= Len(t.meta.blocks)
  THEN [res |-> "InvalidBlockIndex", block |-> NoBlock, sst |-> t]
  ELSE ReadBlockResult(t, ReadBlockData(t.file, t.meta.blocks[index + 1].offset,
                                        t.meta.blocks[index + 1].point_count))

\* scan_blocks from block index on: the blocks read_block returns Ok for.
\* [blocks, sst]
RECURSIVE ScanFrom(_, _, _)
\* if let Ok(block) = read_block(i) { blocks.push(block) }, and on.
ScanPush(r, index, out) ==
  ScanFrom(r.sst, index + 1, IF r.res = "Ok" THEN Append(out, r.block) ELSE out)

ScanFrom(t, index, out) ==
  IF index >= Len(t.meta.blocks) THEN [blocks |-> out, sst |-> t]
  ELSE ScanPush(ReadBlock(t, index), index, out)

\* scan_blocks
ScanBlocks(t) == ScanFrom(t, 0, <<>>)

\* Blocks with vectors of one length, as the callers of write_block build them.
SstBlocks ==
  { Block(100, <<>>, <<>>, <<>>, <<>>),
    Block(100, <<0, 50>>, <<F64One, F64Two>>, <<SeriesA, SeriesA>>, <<TagsNone, TagsKV>>),
    Block(150, <<0>>, <<F64One>>, <<SeriesA>>, <<TagsNone>>),
    Block(200, <<0, -100>>, <<F64Two, F64One>>, <<SeriesA, SeriesB>>, <<TagsNone, TagsNone>>),
    Block(150, <<0, 0>>, <<F64NaN, F64Two>>, <<SeriesB, SeriesB>>, <<TagsKV, TagsNone>>) }

(***************************************************************************)
(* State.                                                                  *)
(***************************************************************************)
VARIABLES
  now,         \* SystemTime::now(), unix seconds
  walConfig,   \* [size |-> max_segment_size, age |-> max_segment_age]
  walDisk,     \* the .wal files of the directory, in order of creation: their bytes
  walCur,      \* current_segment: [path, size, created_at], path 0 for None
  walWrites,   \* history: the calls of write, [entry, fault, res, seg]
  walFaults,   \* number of I/O failures injected so far
  walRes,      \* outcome of the last call of write, replay or verify
  walDamage,   \* what was done to the files behind the log's back: [kind, seg, entry]
  sstables,    \* the SSTables created so far, in order of creation
  catalog,     \* the executor's sstables: indices into sstables, in push order
  memData,     \* MemTable.data: the points of each series, none for no entry
  memSize,     \* MemTable.size
  memCapacity, \* MemTable.capacity
  flush,       \* FlushManager.flush_task and the state of its task
  inserted,    \* history: the [series, point, flushes] insert returned Ok for
  exec,        \* QueryExecutor: [memory_usage, cancelled]
  lsmRes,      \* outcome of the last operation on the LSM tree
  memSync,     \* the MemTable's two locks and the calls under way on its tasks
  sstCatalog,  \* SSTableCatalog: [tables, series_index]
  timeSeries,  \* TimeSeries: points, last_timestamp and the calls of add_point under way
  execConfig,  \* ExecutionConfig of the executor: [memory_limit, max_concurrent_tasks]
  queries,     \* the calls of execute_query followed step by step, and their tasks
  catSync      \* the catalog's two locks and the calls under way on its tasks

walVars == <<now, walConfig, walDisk, walCur, walWrites, walFaults, walRes, walDamage>>
\* The state of the objects whose calls are followed step by step.
taskVars == <<timeSeries, execConfig, queries, catSync>>
storeVars == <<sstables, catalog, memData, memSize, memCapacity, flush, inserted, exec,
              lsmRes, memSync, sstCatalog>>
lsmVars == <<storeVars, taskVars>>
\* What the operations called one at a time leave alone.
aside == <<walVars, memCapacity, memSync, sstCatalog, taskVars>>
vars == <<walVars, lsmVars>>

\* The series of the model.
Series == {SeriesA, SeriesB}

\* MemTable::new: no data, size 0
EmptyData == [s \in Series |-> <<>>]

\* No task that runs without a handle.
NoDetached == [task |-> "none", sst |-> 0, data |-> EmptyData, todo |-> <<>>, capacity |-> 0]

\* FlushManager::new: flush_task None
\* handle tells that flush_task is Some; task is "none", or where the task
\* started last stands: "spawned", "writing", "done"; waiter tells that a
\* call of wait_for_flush has taken the handle and awaits the task; old is a
\* task started earlier that runs on without a handle;
\* capacity is that of the task's new_memtable; started and done count the
\* tasks started and awaited, swapped the inserts that had returned Ok when
\* the last task replaced the MemTable; failed tells that a write of the
\* last task met an I/O error.
NoFlush ==
  [task |-> "none", sst |-> 0, data |-> EmptyData, todo |-> <<>>, res |-> "Ok",
   capacity |-> 0, started |-> 0, done |-> 0, swapped |-> 0, failed |-> FALSE,
   handle |-> FALSE, waiter |-> FALSE, old |-> NoDetached]

\* No operation yet.
NoRes == [op |-> "none", res |-> "Ok", out |-> <<>>, arg |-> <<>>]

\* The tasks that call the MemTable at the same time.
MemTasks == 1..2

\* A task between two calls: what its last call returned.
Returned(op, res, out, arg) ==
  [op |-> op, pc |-> "idle", res |-> res, out |-> out, arg |-> arg]

\* RwLock::new for size and for data (0: no write guard; else the task that
\* holds it), no call under way.  ok and drained are history: the (series,
\* point) pairs insert returned Ok for and the pairs the calls of clear
\* returned, in the order of the returns.
NoCalls ==
  [size |-> 0, data |-> 0, calls |-> 0, ok |-> <<>>, drained |-> <<>>,
   task |-> [t \in MemTasks |-> Returned("none", "Ok", <<>>, <<>>)]]

\* RwLock::new: no guard out, no task waiting.  w is the task that holds the
\* write guard (0: none), r the tasks that hold read guards, queue the tasks
\* that wait, in the order they came.
NewLock == [w |-> 0, r |-> {}, queue |-> <<>>]

\* The requests at the head of the queue are served as far as the guards
\* out allow.
RECURSIVE Grant(_)
Grant(lock) ==
  IF lock.queue = <<>> THEN lock
  ELSE IF Head(lock.queue).mode = "write"
  THEN (IF lock.w = 0 /\ lock.r = {}
        THEN [lock EXCEPT !.w = Head(lock.queue).task, !.queue = Tail(@)]
        ELSE lock)
  ELSE (IF lock.w = 0
        THEN Grant([lock EXCEPT !.r = @ \cup {Head(lock.queue).task}, !.queue = Tail(@)])
        ELSE lock)

\* write().await or read().await of the task t: the request joins the queue.
Acquire(lock, t, mode) == Grant([lock EXCEPT !.queue = Append(@, [task |-> t, mode |-> mode])])

\* The guard of the task t is dropped.
Release(lock, t) == Grant([lock EXCEPT !.w = IF @ = t THEN 0 ELSE @, !.r = @ \ {t}])

\* The await of the task t has completed: it holds a guard of the lock.
Holds(lock, t) == lock.w = t \/ t \in lock.r

\* The locks of an SSTable as SSTable::new and SSTable::open make them, and
\* no call of write_block under way on it: pc is where the call stands,
\* block its argument.
NoSstCalls == [metadata |-> NewLock, file |-> NewLock, pc |-> "idle", block |-> <<>>]

\* SSTableCatalog::new: the locks of tables and of series_index; no call
\* under way on any task.
NoCatCalls ==
  [lock |-> [tables |-> NewLock, series_index |-> NewLock], calls |-> 0,
   task |-> [t \in MemTasks |->
               [op |-> "none", pc |-> "idle", arg |-> <<>>, out |-> <<>>, seen |-> <<>>]]]

\* The calls of execute_query that may be in flight at the same time.
Queries == 1..2

\* No call of execute_query yet.
NoQuery ==
  [pc |-> "none", arg |-> <<>>, results |-> <<>>, tasks |-> <<>>, join |-> 1,
   result |-> [res |-> "none", out |-> <<>>], timeout |-> FALSE, cancel |-> FALSE,
   res |-> "none", out |-> <<>>]

\* TimeSeries::new: no points, last_timestamp 0; no call of add_point under
\* way on any task.
NewTimeSeries ==
  [points |-> <<>>, last_timestamp |-> 0, calls |-> 0,
   task |-> [t \in MemTasks |-> [pc |-> "idle", point |-> <<>>, res |-> "none"]]]

\* SSTableCatalog::new: tables and series_index are empty maps
NewCatalog == [tables |-> <<>>, series_index |-> <<>>]

\* ExecutionConfig::default()
DefaultConfig ==
  [memory_limit |-> DefaultMemoryLimit, max_concurrent_tasks |-> DefaultMaxConcurrentTasks]

\* The LSM tree as constructed: MemTable::new, FlushManager::new,
\* QueryExecutor::new over an empty list of SSTables.
\* No call is under way on any task: the time series, the executor and the
\* catalog are as their constructors left them.
TasksNew ==
  /\ timeSeries = NewTimeSeries
  /\ catSync = NoCatCalls
  /\ execConfig = DefaultConfig
  /\ queries = [q \in Queries |-> NoQuery]

LsmNew ==
  /\ memSync = NoCalls
  /\ TasksNew
  /\ sstCatalog = NewCatalog
  /\ sstables = <<>>
  /\ catalog = <<>>
  /\ memData = EmptyData
  /\ memSize = 0
  /\ memCapacity = MemCapacity
  /\ flush = NoFlush
  /\ inserted = <<>>
  /\ exec = [memory_usage |-> 0, cancelled |-> FALSE]
  /\ lsmRes = NoRes

\* current_segment = None
NoSegment == [path |-> 0, size |-> 0, created_at |-> 0]

\* The files are as the log wrote them.
NoDamage == [kind |-> "none", seg |-> 0, entry |-> 0]

\* The write-ahead log as constructed, no write yet.
WalNew ==
  /\ now = StartClock
  /\ walDamage = NoDamage
  /\ walDisk = <<>>
  /\ walCur = NoSegment
  /\ walWrites = <<>>
  /\ walFaults = 0
  /\ walRes = [op |-> "none", res |-> "Ok", out |-> <<>>]

(***************************************************************************)
(* WriteAheadLog (storage/wal.rs).                                         *)
(***************************************************************************)
\* The limits WriteAheadLog::new sets.
DefaultWalConfig == [size |-> DEFAULT_SEGMENT_SIZE, age |-> DEFAULT_SEGMENT_DURATION]

\* The limits the callers set.
WalSizes == {TestSegmentSize}
WalAges == {SmallSegmentAge}

\* The I/O operations of write that may fail, in the order write makes them.
WalFaultKinds == {"create", "header", "open", "json", "crc", "stat"}

\* What a failed flush of n buffered bytes leaves in the file: nothing, a part,
\* or all of it (BufWriter retries the rest when it is dropped).
Cut(n, k) == CASE k = 0 -> 0 [] k = 1 -> n \div 2 [] OTHER -> n

\* replay and verify read the directory and change nothing in it; the model
\* records their outcome in walRes and explores no further from there, since
\* every step from the state before is also taken from that state itself.
Observing == walRes.op \notin {"replay", "verify"}

\* Segment::new(path): the size is the file's length, created_at is now.
NewSegment(disk, path) ==
  [path |-> path, size |-> Len(disk[path]), created_at |-> now]

\* rotate_segment: create the file, write and flush the header line.
\* [ok, disk, seg]
RotateSegment(disk, fault, cut) ==
  LET header == HeaderJson(now) \o <<10>>
  IN  CASE fault = "create" -> [ok |-> FALSE, disk |-> disk, seg |-> NoSegment]
        [] fault = "header" ->
             [ok |-> FALSE,
              disk |-> Append(disk, SubSeq(header, 1, Cut(Len(header), cut))),
              seg |-> NoSegment]
        [] OTHER ->
             [ok |-> TRUE, disk |-> Append(disk, header),
              seg |-> NewSegment(Append(disk, header), Len(disk) + 1)]

\* write_entry with the result of its last flush dropped (writer.flush().ok()
\* for writer.flush()?): the failure of the CRC line goes unreported.
WriteEntryUnchecked(disk, path, e, fault, cut) ==
  LET json == EntryText[e] \o <<10>>
      crc == Crc(EntryText[e]) \o <<10>>
      put(bytes) == [disk EXCEPT ![path] = @ \o bytes]
  IN  CASE fault = "open" -> [ok |-> FALSE, disk |-> disk]
        [] fault = "json" ->
             [ok |-> FALSE, disk |-> put(SubSeq(json, 1, Cut(Len(json), cut)))]
        [] fault = "crc" ->
             [ok |-> TRUE,
              disk |-> put(json \o SubSeq(crc, 1, Cut(Len(crc), cut)))]
        [] OTHER -> [ok |-> TRUE, disk |-> put(json \o crc)]

\* write_entry: append the JSON line, flush, append the CRC line, flush.
\* [ok, disk]
WriteEntry(disk, path, e, fault, cut) ==
  LET json == EntryText[e] \o <<10>>
      crc == Crc(EntryText[e]) \o <<10>>
      put(bytes) == [disk EXCEPT ![path] = @ \o bytes]
  IN  CASE fault = "open" -> [ok |-> FALSE, disk |-> disk]
        [] fault = "json" ->
             [ok |-> FALSE, disk |-> put(SubSeq(json, 1, Cut(Len(json), cut)))]
        [] fault = "crc" ->
             [ok |-> FALSE,
              disk |-> put(json \o SubSeq(crc, 1, Cut(Len(crc), cut)))]
        [] OTHER -> [ok |-> TRUE, disk |-> put(json \o crc)]

\* A segment rotated only once it is beyond its size or its age.
NeedsRotationBeyond(seg) ==
  seg.size > walConfig.size \/ now - seg.created_at > walConfig.age

\* Segment::is_full || Segment::is_expired
NeedsRotation(seg) ==
  seg.size >= walConfig.size \/ now - seg.created_at >= walConfig.age

\* write: [res, disk, cur].  A fault of rotate_segment strikes the first
\* rotation the call makes.
WalWriteOutcome(e, fault, cut) ==
  LET first == IF walCur.path = 0
               THEN RotateSegment(walDisk, fault, cut)
               ELSE [ok |-> TRUE, disk |-> walDisk, seg |-> walCur]
  IN  IF ~first.ok
      THEN [res |-> "Io", disk |-> first.disk, cur |-> walCur]
      ELSE
        LET second == IF NeedsRotation(first.seg)
                      THEN RotateSegment(first.disk,
                                         IF walCur.path = 0 THEN "none" ELSE fault, cut)
                      ELSE first
        IN  IF ~second.ok
            THEN [res |-> "Io", disk |-> second.disk, cur |-> first.seg]
            ELSE
              LET seg == second.seg
                  wrote == WriteEntry(second.disk, seg.path, e, fault, cut)
              IN  IF ~wrote.ok
                  THEN [res |-> "Io", disk |-> wrote.disk, cur |-> seg]
                  ELSE IF fault = "stat"     \* update_size: fs::metadata fails
                  THEN [res |-> "Io", disk |-> wrote.disk, cur |-> seg]
                  ELSE [res |-> "Ok", disk |-> wrote.disk,
                        cur |-> [seg EXCEPT !.size = Len(wrote.disk[seg.path])]]

\* The fault is one of an operation the call makes.
FaultStrikes(fault, cut) ==
  /\ fault \in {"create", "header"} => (walCur.path = 0 \/ NeedsRotation(walCur))
  /\ fault \in {"create", "open", "stat"} => cut = 0

WalWrite(e, fault, cut) ==
  /\ Observing
  /\ Len(walWrites) < MaxWalWrites
  /\ fault # "none" => (walFaults < MaxWalFaults /\ FaultStrikes(fault, cut))
  /\ fault = "none" => cut = 0
  /\ LET o == WalWriteOutcome(e, fault, cut)
     IN  /\ walDisk' = o.disk
         /\ walCur' = o.cur
         /\ walWrites' = Append(walWrites,
                [entry |-> e, fault |-> fault, res |-> o.res,
                 seg |-> o.cur.path])
         /\ walRes' = [op |-> "write", res |-> o.res, out |-> <<>>]
  /\ walFaults' = walFaults + (IF fault = "none" THEN 0 ELSE 1)
  /\ UNCHANGED <<now, walConfig, walDamage>>
  /\ UNCHANGED lsmVars

\* The wall clock advances by a second.
WalTick ==
  /\ Observing
  /\ now < StartClock + MaxClock
  /\ now' = now + 1
  /\ UNCHANGED <<walConfig, walDisk, walCur, walWrites, walFaults, walRes, walDamage>>
  /\ UNCHANGED lsmVars

\* WriteAheadLog::new over the same directory: no current segment, the
\* limits of the constructor.
WalReopen ==
  /\ Observing
  /\ walCur.path # 0 \/ walConfig # DefaultWalConfig
  /\ walCur' = NoSegment
  /\ walConfig' = DefaultWalConfig
  /\ walRes' = [op |-> "new", res |-> "Ok", out |-> <<>>]
  /\ UNCHANGED <<now, walDisk, walWrites, walFaults, walDamage>>
  /\ UNCHANGED lsmVars

\* with_max_segment_size(size)
WithMaxSegmentSize(size) ==
  /\ Observing
  /\ walConfig.size # size
  /\ walConfig' = [walConfig EXCEPT !.size = size]
  /\ UNCHANGED <<now, walDisk, walCur, walWrites, walFaults, walRes, walDamage>>
  /\ UNCHANGED lsmVars

\* with_max_segment_age(age)
WithMaxSegmentAge(age) ==
  /\ Observing
  /\ walConfig.age # age
  /\ walConfig' = [walConfig EXCEPT !.age = age]
  /\ UNCHANGED <<now, walDisk, walCur, walWrites, walFaults, walRes, walDamage>>
  /\ UNCHANGED lsmVars

\* The loop of replay_segment from byte pos on, out the entries handed to the
\* callback so far.  [err, out]
RECURSIVE ReplayEntries(_, _, _)
ReplayEntries(bytes, pos, out) ==
  IF pos > Len(bytes) THEN [err |-> "Ok", out |-> out]       \* read_line returns 0
  ELSE
    LET end == LineEnd(bytes, pos)
        line == SubSeq(bytes, pos, end)
        next == end + 1
    IN  IF ~Utf8Valid(line) THEN [err |-> "Io", out |-> out]
        ELSE IF Trim(line) = <<>> THEN ReplayEntries(bytes, next, out)
        ELSE IF ~CanParseEntry(Trim(line))                     \* warn!, continue
        THEN ReplayEntries(bytes, next, out)
        ELSE IF next + 4 > Len(bytes)                          \* read_exact: 4 + 1 bytes
        THEN [err |-> "Io", out |-> out]
        ELSE IF Crc(Trim(line)) # SubSeq(bytes, next, next + 3)
        THEN [err |-> "CorruptedEntry", out |-> out]
        ELSE ReplayEntries(bytes, next + 5, Append(out, ParseEntry(Trim(line))))

\* replay_segment: the header line, then the entries.  [err, out]
ReplaySegment(bytes) ==
  LET end == LineEnd(bytes, 1)
      header == SubSeq(bytes, 1, end)
  IN  IF ~Utf8Valid(header) THEN [err |-> "Io", out |-> <<>>]
      ELSE IF ~CanParseHeader(header) THEN [err |-> "Serialization", out |-> <<>>]
      ELSE ReplayEntries(bytes, end + 1, <<>>)

\* The loop of verify_segment from byte pos on; line is the content of the
\* String the loop reads into.  "true", "false" or "Io".
RECURSIVE VerifyEntries(_, _, _)
VerifyEntries(bytes, pos, line) ==
  IF pos > Len(bytes) THEN "true"
  ELSE
    LET end == LineEnd(bytes, pos)
        read == SubSeq(bytes, pos, end)
        text == line \o read
        next == end + 1
    IN  IF ~Utf8Valid(read) THEN "Io"
        ELSE IF Trim(text) = <<>> THEN VerifyEntries(bytes, next, text)  \* continue, line kept
        ELSE IF ~CanParseEntry(text) THEN "false"
        ELSE IF next + 3 > Len(bytes) THEN "false"             \* read_exact: 4 bytes
        ELSE IF Crc(text) # SubSeq(bytes, next, next + 3) THEN "false"
        ELSE VerifyEntries(bytes, next + 4, <<>>)              \* line.clear()

\* verify_segment
VerifySegment(bytes) ==
  LET end == LineEnd(bytes, 1)
      header == SubSeq(bytes, 1, end)
  IN  IF ~Utf8Valid(header) THEN "Io"
      ELSE IF ~CanParseHeader(header) THEN "false"
      ELSE VerifyEntries(bytes, end + 1, <<>>)

\* get_segments: fs::read_dir lists the files in an order the file system
\* chooses; Segment::new gives each of them created_at = now, so the stable
\* sort_by_key(created_at) of replay keeps that order.
ReadDirOrders ==
  {f \in [1..Len(walDisk) -> 1..Len(walDisk)] :
     \A i, j \in 1..Len(walDisk) : i # j => f[i] # f[j]}

\* replay over the segments in the order given.  [res, out]
RECURSIVE ReplayAll(_, _, _, _)
ReplayAll(segs, order, k, out) ==
  IF k > Len(order) THEN [res |-> "Ok", out |-> out]
  ELSE LET r == segs[order[k]]
       IN  IF r.err # "Ok" THEN [res |-> r.err, out |-> out \o r.out]
           ELSE ReplayAll(segs, order, k + 1, out \o r.out)

WalReplay ==
  /\ Observing
  /\ LET segs == [i \in 1..Len(walDisk) |-> ReplaySegment(walDisk[i])]
     IN  \E order \in ReadDirOrders :
           LET r == IF Len(walDisk) = 0
                    THEN [res |-> "NoValidSegments", out |-> <<>>]
                    ELSE ReplayAll(segs, order, 1, <<>>)
           IN  walRes' = [op |-> "replay", res |-> r.res, out |-> r.out]
  /\ UNCHANGED <<now, walConfig, walDisk, walCur, walWrites, walFaults, walDamage>>
  /\ UNCHANGED lsmVars

\* verify over the segments in the order given.  "true", "false" or "Io"
RECURSIVE VerifyAll(_, _, _)
VerifyAll(segs, order, k) ==
  IF k > Len(order) THEN "true"
  ELSE IF segs[order[k]] # "true" THEN segs[order[k]]
  ELSE VerifyAll(segs, order, k + 1)

WalVerify ==
  /\ Observing
  /\ LET segs == [i \in 1..Len(walDisk) |-> VerifySegment(walDisk[i])]
     IN  \E order \in ReadDirOrders :
           walRes' = [op |-> "verify", res |-> VerifyAll(segs, order, 1), out |-> <<>>]
  /\ UNCHANGED <<now, walConfig, walDisk, walCur, walWrites, walFaults, walDamage>>
  /\ UNCHANGED lsmVars

WalInit ==
  /\ walConfig = DefaultWalConfig
  /\ WalNew
  /\ LsmNew

WalNext ==
  \/ \E e \in WalPoints : WalWrite(e, "none", 0)
  \/ \E e \in WalPoints, fault \in WalFaultKinds, cut \in 0..2 : WalWrite(e, fault, cut)
  \/ WalTick
  \/ WalReopen
  \/ \E size \in WalSizes : WithMaxSegmentSize(size)
  \/ \E age \in WalAges : WithMaxSegmentAge(age)
  \/ WalReplay
  \/ WalVerify

SpecWal == WalInit /\ [][WalNext]_vars

\* The writers alone: the calls of write, the clock and the reopening.
WalWriteNext ==
  \/ \E e \in WalPoints : WalWrite(e, "none", 0)
  \/ \E e \in WalPoints, fault \in WalFaultKinds, cut \in 0..2 : WalWrite(e, fault, cut)
  \/ WalTick
  \/ WalReopen
  \/ \E size \in WalSizes : WithMaxSegmentSize(size)
  \/ \E age \in WalAges : WithMaxSegmentAge(age)

SpecWalWrite == WalInit /\ [][WalWriteNext]_vars

(***************************************************************************)
(* Damage to the segment files, done on the file system as                 *)
(* test_wal_corruption_detection does it, after writes that all returned   *)
(* Ok.  At most one damage is done to a directory.                         *)
(***************************************************************************)
\* The bytes write_entry appended for the writes before the w-th that went to
\* the same segment.
RECURSIVE BytesBefore(_, _)
BytesBefore(w, v) ==
  IF v = 0 THEN 0
  ELSE BytesBefore(w, v - 1)
       + (IF walWrites[v].seg = walWrites[w].seg
          THEN Len(EntryText[walWrites[v].entry]) + 6 ELSE 0)

\* Where in its segment file the JSON line of the w-th write starts, and
\* where its four CRC bytes start (positions from 1).
JsonStart(w) == LineEnd(walDisk[walWrites[w].seg], 1) + BytesBefore(w, w - 1) + 1
CrcStart(w) == JsonStart(w) + Len(EntryText[walWrites[w].entry]) + 1

\* The w-th write is the last that went to its segment.
LastOfSegment(w) == \A v \in (w + 1)..Len(walWrites) : walWrites[v].seg # walWrites[w].seg

\* The garbage written over the end of a file: "corrupted", nine bytes 0xFF,
\* ten bytes 0.
Garbage ==
  { <<99, 111, 114, 114, 117, 112, 116, 101, 100>>,
    <<255, 255, 255, 255, 255, 255, 255, 255, 255>>,
    <<0, 0, 0, 0, 0, 0, 0, 0, 0, 0>> }

\* file.seek(SeekFrom::End(-10)); file.write_all(garbage) on the segment of
\* the w-th write, the last of that segment.
WalOverwriteTail(w, garbage) ==
  /\ Observing
  /\ walDamage = NoDamage
  /\ LastOfSegment(w)
  /\ walDisk' = [walDisk EXCEPT ![walWrites[w].seg] =
                   SubSeq(@, 1, Len(@) - 10) \o garbage \o SubSeq(@, Len(@) - 9 + Len(garbage), Len(@))]
  /\ walDamage' = [kind |-> "overwrite", seg |-> walWrites[w].seg, entry |-> w]
  /\ UNCHANGED <<now, walConfig, walCur, walWrites, walFaults, walRes>>
  /\ UNCHANGED lsmVars

\* The first of the stored CRC bytes of the w-th write is changed.
WalFlipCrc(w) ==
  /\ Observing
  /\ walDamage = NoDamage
  /\ walDisk' = [walDisk EXCEPT ![walWrites[w].seg][CrcStart(w)] = (@ + 1) % 256]
  /\ walDamage' = [kind |-> "crc", seg |-> walWrites[w].seg, entry |-> w]
  /\ UNCHANGED <<now, walConfig, walCur, walWrites, walFaults, walRes>>
  /\ UNCHANGED lsmVars

\* How many bytes a torn entry lacks: the newline behind the CRC, a part of
\* the CRC, all of the CRC line, a part of the JSON body.
TornLens == {1, 3, 5, 7, 12}

\* The file of the w-th write, the last of its segment, ends k bytes early
\* (File::set_len, or a crash before the bytes reached the disk).
WalTruncate(w, k) ==
  /\ Observing
  /\ walDamage = NoDamage
  /\ LastOfSegment(w)
  /\ walDisk' = [walDisk EXCEPT ![walWrites[w].seg] = SubSeq(@, 1, Len(@) - k)]
  /\ walDamage' = [kind |-> "torn", seg |-> walWrites[w].seg, entry |-> w]
  /\ UNCHANGED <<now, walConfig, walCur, walWrites, walFaults, walRes>>
  /\ UNCHANGED lsmVars

WalDamageNext ==
  \/ \E e \in WalPoints : WalWrite(e, "none", 0)
  \/ WalTick
  \/ \E size \in WalSizes : WithMaxSegmentSize(size)
  \/ \E age \in WalAges : WithMaxSegmentAge(age)
  \/ \E w \in 1..Len(walWrites), garbage \in Garbage : WalOverwriteTail(w, garbage)
  \/ \E w \in 1..Len(walWrites) : WalFlipCrc(w)
  \/ \E w \in 1..Len(walWrites), k \in TornLens : WalTruncate(w, k)
  \/ WalReplay
  \/ WalVerify

SpecWalDamage == WalInit /\ [][WalDamageNext]_vars

(***************************************************************************)
(* SSTable (storage/lsm/sstable.rs): the operations on the SSTables the    *)
(* callers hold.  held tells who holds the handle of an SSTable: "user",   *)
(* "flush" (the flush task) or "none" (dropped, the file remains); sync    *)
(* holds the locks of its metadata and of its file, and the call of        *)
(* write_block that is followed lock by lock beside the executor's tasks.  *)
(***************************************************************************)
\* The outcome of an operation.
Res(op, res, out, arg) == [op |-> op, res |-> res, out |-> out, arg |-> arg]

\* SSTable::new(path) on a new path.
SstNew ==
  /\ Len(sstables) < MaxTables
  /\ sstables' = Append(sstables, [sst |-> NewSSTable, held |-> "user", sync |-> NoSstCalls])
  /\ lsmRes' = Res("new", "Ok", <<>>, <<Len(sstables) + 1>>)
  /\ UNCHANGED <<catalog, memData, memSize, flush, inserted, exec>>
  /\ UNCHANGED aside

\* write_block(b) on SSTable i, which has had fewer than max blocks written.
SstWriteBlock(i, b, max) ==
  /\ sstables[i].held = "user"
  /\ Len(sstables[i].sst.wrote) < max
  /\ sstables' = [sstables EXCEPT ![i].sst = WriteBlock(@, b)]
  /\ lsmRes' = Res("write_block", "Ok", <<>>, <<i>>)
  /\ UNCHANGED <<catalog, memData, memSize, flush, inserted, exec>>
  /\ UNCHANGED aside

\* read_block(index) on SSTable i.
SstReadBlock(i, index) ==
  /\ sstables[i].held = "user"
  /\ LET r == ReadBlock(sstables[i].sst, index)
     IN  /\ sstables' = [sstables EXCEPT ![i].sst = r.sst]
         /\ lsmRes' = Res("read_block", r.res,
                          IF r.res = "Ok" THEN <<r.block>> ELSE <<>>, <<i, index>>)
  /\ UNCHANGED <<catalog, memData, memSize, flush, inserted, exec>>
  /\ UNCHANGED aside

\* scan_blocks on SSTable i.
SstScan(i) ==
  /\ sstables[i].held = "user"
  /\ LET r == ScanBlocks(sstables[i].sst)
     IN  /\ sstables' = [sstables EXCEPT ![i].sst = r.sst]
         /\ lsmRes' = Res("scan_blocks", "Ok", r.blocks, <<i>>)
  /\ UNCHANGED <<catalog, memData, memSize, flush, inserted, exec>>
  /\ UNCHANGED aside

\* The SSTable i is in the executor's list.
Listed(i) == \E k \in 1..Len(catalog) : catalog[k] = i

\* SSTable::open(path) on the file of SSTable i, whose earlier handle is
\* dropped (the executor's list keeps its handles).
SstOpen(i) ==
  /\ sstables[i].held \in {"user", "none"}
  /\ ~Listed(i)
  /\ LET r == OpenSSTable(sstables[i].sst)
     IN  /\ sstables' = [sstables EXCEPT ![i] = [sst |-> r.sst, held |-> "user", sync |-> NoSstCalls]]
         /\ lsmRes' = Res("open", r.res, <<>>, <<i>>)
  /\ UNCHANGED <<catalog, memData, memSize, flush, inserted, exec>>
  /\ UNCHANGED aside

\* sstables.write().await.push(Arc::new(sstable)), as the callers of the
\* executor do.
SstRegister(i) ==
  /\ sstables[i].held = "user"
  /\ ~Listed(i)
  /\ catalog' = Append(catalog, i)
  /\ lsmRes' = Res("push", "Ok", <<>>, <<i>>)
  /\ UNCHANGED <<sstables, memData, memSize, flush, inserted, exec>>
  /\ UNCHANGED aside

\* One SSTable, created and held.
SstInit ==
  /\ walConfig = DefaultWalConfig
  /\ WalNew
  /\ sstables = <<[sst |-> NewSSTable, held |-> "user", sync |-> NoSstCalls]>>
  /\ catalog = <<>>
  /\ memData = EmptyData
  /\ memSize = 0
  /\ memCapacity = MemCapacity
  /\ flush = NoFlush
  /\ inserted = <<>>
  /\ exec = [memory_usage |-> 0, cancelled |-> FALSE]
  /\ lsmRes = Res("new", "Ok", <<>>, <<1>>)
  /\ memSync = NoCalls
  /\ sstCatalog = NewCatalog
  /\ TasksNew

SstNext ==
  \/ \E i \in 1..Len(sstables), b \in SstBlocks : SstWriteBlock(i, b, MaxSstBlocks)
  \/ \E i \in 1..Len(sstables), index \in 0..MaxSstBlocks : SstReadBlock(i, index)
  \/ \E i \in 1..Len(sstables) : SstScan(i)
  \/ \E i \in 1..Len(sstables) : SstOpen(i)

SpecSst == SstInit /\ [][SstNext]_vars

(***************************************************************************)
(* MemTable (storage/lsm/memtable.rs).                                     *)
(***************************************************************************)
\* The points the callers insert.
MemPoints ==
  { [timestamp |-> 100, value |-> F64Two, tags |-> TagsNone],
    [timestamp |-> 150, value |-> F64Two, tags |-> TagsKV] }

\* The check of the timestamp order with < for <=: a point at the last
\* timestamp of its series passes.
OutOfOrderStrict(points, p) ==
  Len(points) > 0 /\ p.timestamp < points[Len(points)].timestamp

\* if let Some(last_point) = points.last() { point.timestamp() <=
\* last_point.timestamp() }
OutOfOrder(points, p) ==
  Len(points) > 0 /\ p.timestamp <= points[Len(points)].timestamp

\* needs_flush counting the points before the insert only.
NeedsFlushBefore(size) == size >= memCapacity

\* needs_flush = (*size + 1) >= self.capacity
NeedsFlush(size) == size + 1 >= memCapacity

\* insert(series, point)
MemInsert(s, p) ==
  /\ Len(inserted) < MaxInserts
  /\ IF OutOfOrder(memData[s], p)
     THEN /\ lsmRes' = Res("insert", "InvalidTimestampOrder", <<>>, <<s, p>>)
          /\ UNCHANGED <<memData, memSize, inserted>>
     ELSE /\ memData' = [memData EXCEPT ![s] = Append(@, p)]
          /\ memSize' = memSize + 1
          /\ inserted' = Append(inserted, [series |-> s, point |-> p,
                                           flushes |-> flush.started])
          /\ lsmRes' = Res("insert", "Ok", <<NeedsFlush(memSize)>>, <<s, p>>)
  /\ UNCHANGED <<sstables, catalog, flush, exec>>
  /\ UNCHANGED aside

\* iter().filter(|p| p.timestamp() >= start && p.timestamp() <= end)
RECURSIVE FilterRange(_, _, _)
FilterRange(points, start, end) ==
  IF Len(points) = 0 THEN <<>>
  ELSE (IF Head(points).timestamp >= start /\ Head(points).timestamp <= end
        THEN <<Head(points)>> ELSE <<>>) \o FilterRange(Tail(points), start, end)

\* get_series_range(series_name, start, end)
GetSeriesRange(data, s, start, end) == FilterRange(data[s], start, end)

\* The orders in which a HashMap may hand out the series that hold points.
SeriesOrders(data) ==
  LET held == {s \in Series : Len(data[s]) > 0}
  IN  {o \in [1..Cardinality(held) -> held] :
         \A i, j \in 1..Cardinality(held) : i # j => o[i] # o[j]}

\* The points as (series_name, point) pairs.
Pairs(s, points) == [k \in 1..Len(points) |-> [series |-> s, point |-> points[k]]]

\* get_range: the loop over data.iter() in the order given, from the k-th
\* series on.
RECURSIVE RangePairs(_, _, _, _, _)
RangePairs(data, order, k, start, end) ==
  IF k > Len(order) THEN <<>>
  ELSE Pairs(order[k], FilterRange(data[order[k]], start, end))
       \o RangePairs(data, order, k + 1, start, end)

\* get_range(start, end)
MemGetRange(start, end) ==
  /\ \E order \in SeriesOrders(memData) :
       lsmRes' = Res("get_range", "Ok", RangePairs(memData, order, 1, start, end),
                     <<start, end>>)
  /\ UNCHANGED <<sstables, catalog, memData, memSize, flush, inserted, exec>>
  /\ UNCHANGED aside

\* clear: the loop over data.drain() in the order given, from the k-th series
\* on.
RECURSIVE DrainPairs(_, _, _)
DrainPairs(data, order, k) ==
  IF k > Len(order) THEN <<>>
  ELSE Pairs(order[k], data[order[k]]) \o DrainPairs(data, order, k + 1)

\* clear()
MemClear ==
  /\ \E order \in SeriesOrders(memData) :
       lsmRes' = Res("clear", "Ok", DrainPairs(memData, order, 1), <<>>)
  /\ memData' = EmptyData
  /\ memSize' = 0
  /\ UNCHANGED <<sstables, catalog, flush, inserted, exec>>
  /\ UNCHANGED aside

\* The ranges get_range is called with.
MemRanges == {<<100, 150>>, <<100, 100>>, <<120, 150>>}

MemNext ==
  \/ \E s \in Series, p \in MemPoints : MemInsert(s, p)
  \/ \E r \in MemRanges : MemGetRange(r[1], r[2])
  \/ MemClear

(***************************************************************************)
(* MemTable, called by tasks that run together: every await of a lock is a *)
(* step of its own, and so is every change of data or size under the       *)
(* guards.  A guard is dropped where its variable goes out of scope, the   *)
(* one declared last first.                                                *)
(***************************************************************************)
\* write().await returning although another task holds the guard.
WriteFreeAlways(holder) == TRUE

\* write().await, read().await: completes when no task holds the write guard
WriteFree(holder) == holder = 0

\* The task t stands at pc / goes to pc.
At(t, op, pc) == memSync.task[t].op = op /\ memSync.task[t].pc = pc
Goto(t, pc) == [memSync.task[t] EXCEPT !.pc = pc]

\* What the calls of a task leave alone.
MemTaskFrame ==
  /\ UNCHANGED <<sstables, catalog, memCapacity, flush, inserted, exec, lsmRes, sstCatalog>>
  /\ UNCHANGED <<walVars, taskVars>>

\* The task t calls op: it runs up to the first await.
MemCall(t, op, arg) ==
  /\ memSync.task[t].pc = "idle"
  /\ memSync.calls < MaxMemCalls
  /\ memSync' = [memSync EXCEPT !.calls = @ + 1,
                                !.task[t] = [op |-> op, pc |-> "called", res |-> "none",
                                             out |-> <<>>, arg |-> arg]]
  /\ UNCHANGED <<memData, memSize>>
  /\ MemTaskFrame

\* insert, one step of the task t.
MemInsertTask(t) ==
  /\ \/ /\ At(t, "insert", "called")               \* self.size.write().await
        /\ WriteFree(memSync.size)
        /\ memSync' = [memSync EXCEPT !.size = t, !.task[t] = Goto(t, "has_size")]
        /\ UNCHANGED <<memData, memSize>>
     \/ /\ At(t, "insert", "has_size")             \* self.data.write().await
        /\ WriteFree(memSync.data)
        /\ memSync' = [memSync EXCEPT !.data = t, !.task[t] = Goto(t, "has_both")]
        /\ UNCHANGED <<memData, memSize>>
     \/ /\ At(t, "insert", "has_both")             \* return Err(InvalidTimestampOrder)
        /\ OutOfOrder(memData[memSync.task[t].arg[1]], memSync.task[t].arg[2])
        /\ memSync' = [memSync EXCEPT !.task[t] = [@ EXCEPT !.pc = "leaving",
                                                     !.res = "InvalidTimestampOrder"]]
        /\ UNCHANGED <<memData, memSize>>
     \/ /\ At(t, "insert", "has_both")             \* points.push(point.clone())
        /\ ~OutOfOrder(memData[memSync.task[t].arg[1]], memSync.task[t].arg[2])
        /\ memData' = [memData EXCEPT ![memSync.task[t].arg[1]] =
                                         Append(@, memSync.task[t].arg[2])]
        /\ memSync' = [memSync EXCEPT !.task[t] = [@ EXCEPT !.pc = "pushed",
                                                     !.out = <<NeedsFlush(memSize)>>]]
        /\ UNCHANGED memSize
     \/ /\ At(t, "insert", "pushed")               \* *size += 1; Ok(needs_flush)
        /\ memSize' = memSize + 1
        /\ memSync' = [memSync EXCEPT !.task[t] = [@ EXCEPT !.pc = "leaving", !.res = "Ok"]]
        /\ UNCHANGED memData
     \/ /\ At(t, "insert", "leaving")              \* the guard of data is dropped
        /\ memSync' = [memSync EXCEPT !.data = 0, !.task[t] = Goto(t, "data_dropped")]
        /\ UNCHANGED <<memData, memSize>>
     \/ /\ At(t, "insert", "data_dropped")         \* the guard of size is dropped
        /\ memSync' = [memSync EXCEPT
                         !.size = 0,
                         !.ok = IF memSync.task[t].res = "Ok"
                                THEN Append(@, [series |-> memSync.task[t].arg[1],
                                                point |-> memSync.task[t].arg[2]])
                                ELSE @,
                         !.task[t] = Goto(t, "idle")]
        /\ UNCHANGED <<memData, memSize>>
  /\ MemTaskFrame

\* clear, one step of the task t.
MemClearTask(t) ==
  /\ \/ /\ At(t, "clear", "called")                \* self.data.write().await
        /\ WriteFree(memSync.data)
        /\ memSync' = [memSync EXCEPT !.data = t, !.task[t] = Goto(t, "has_data")]
        /\ UNCHANGED <<memData, memSize>>
     \/ /\ At(t, "clear", "has_data")              \* self.size.write().await
        /\ WriteFree(memSync.size)
        /\ memSync' = [memSync EXCEPT !.size = t, !.task[t] = Goto(t, "has_both")]
        /\ UNCHANGED <<memData, memSize>>
     \/ /\ At(t, "clear", "has_both")              \* for .. in data.drain()
        /\ \E order \in SeriesOrders(memData) :
             memSync' = [memSync EXCEPT !.task[t] = [@ EXCEPT
                           !.pc = "drained", !.out = DrainPairs(memData, order, 1)]]
        /\ memData' = EmptyData
        /\ UNCHANGED memSize
     \/ /\ At(t, "clear", "drained")               \* *size = 0
        /\ memSize' = 0
        /\ memSync' = [memSync EXCEPT !.task[t] = [@ EXCEPT !.pc = "leaving", !.res = "Ok"]]
        /\ UNCHANGED memData
     \/ /\ At(t, "clear", "leaving")               \* the guard of size is dropped
        /\ memSync' = [memSync EXCEPT !.size = 0, !.task[t] = Goto(t, "size_dropped")]
        /\ UNCHANGED <<memData, memSize>>
     \/ /\ At(t, "clear", "size_dropped")          \* the guard of data is dropped
        /\ memSync' = [memSync EXCEPT !.data = 0,
                                      !.drained = @ \o memSync.task[t].out,
                                      !.task[t] = Goto(t, "idle")]
        /\ UNCHANGED <<memData, memSize>>
  /\ MemTaskFrame

\* size() and get_data(): the value under the read guard of the one lock.
MemReadTask(t) ==
  /\ \/ /\ At(t, "size", "called")                 \* *self.size.read().await
        /\ WriteFree(memSync.size)
        /\ memSync' = [memSync EXCEPT !.task[t] = Returned("size", "Ok", <<memSize>>, <<>>)]
     \/ /\ At(t, "get_data", "called")             \* self.data.read().await.clone()
        /\ WriteFree(memSync.data)
        /\ memSync' = [memSync EXCEPT !.task[t] = Returned("get_data", "Ok", <<memData>>, <<>>)]
  /\ UNCHANGED <<memData, memSize>>
  /\ MemTaskFrame

MemTasksNext ==
  \/ \E t \in MemTasks, s \in Series, p \in MemPoints : MemCall(t, "insert", <<s, p>>)
  \/ \E t \in MemTasks, op \in {"clear", "size", "get_data"} : MemCall(t, op, <<>>)
  \/ \E t \in MemTasks : MemInsertTask(t)
  \/ \E t \in MemTasks : MemClearTask(t)
  \/ \E t \in MemTasks : MemReadTask(t)

(***************************************************************************)
(* QueryExecutor (query/executor.rs), for a query with an absolute time    *)
(* range that nothing cancels.                                             *)
(***************************************************************************)
\* time_range_contains for TimeRange::Absolute
TimeRangeContains(start, end, ts) == ts >= start /\ ts <= end

\* The smallest of three lengths: where the zip of three iterators ends.
ZipLen(b) ==
  LET x == Len(b.timestamp_deltas)
      y == Len(b.values)
      z == Len(b.series_names)
      xy == IF x <= y THEN x ELSE y
  IN  IF xy <= z THEN xy ELSE z

\* The loop over the points of a block, from the k-th on: current_timestamp
\* is cur, seen the task's set of timestamps, out its filtered_points.
\* [out, seen]
RECURSIVE FilterBlock(_, _, _, _, _, _, _, _)
FilterBlock(b, k, cur, seen, out, from, start, end) ==
  IF k > ZipLen(b) THEN [out |-> out, seen |-> seen]
  ELSE LET ts == cur + b.timestamp_deltas[k]
       IN  IF TimeRangeContains(start, end, ts) /\ b.series_names[k] = from /\ ts \notin seen
           THEN FilterBlock(b, k + 1, ts, seen \cup {ts},
                            Append(out, [timestamp |-> ts, value |-> b.values[k],
                                         tags |-> TagsNone]),
                            from, start, end)
           ELSE FilterBlock(b, k + 1, ts, seen, out, from, start, end)

\* The task of one SSTable over the blocks scan_blocks gave it, from the k-th
\* on; usage is memory_usage.  [res, out, seen, usage]
RECURSIVE ScanTask(_, _, _, _, _, _, _, _)
ScanTask(blocks, k, usage, seen, out, from, start, end) ==
  IF k > Len(blocks) THEN [res |-> "Ok", out |-> out, seen |-> seen, usage |-> usage]
  ELSE IF usage > DefaultMemoryLimit
  THEN [res |-> "MemoryLimitExceeded", out |-> out, seen |-> seen, usage |-> usage]
  ELSE LET b == blocks[k]
           used == usage + (Len(b.timestamp_deltas) * SizeOfDataPoint)
           f == IF b.start_timestamp <= end
                THEN FilterBlock(b, 1, b.start_timestamp, seen, <<>>, from, start, end)
                ELSE [out |-> <<>>, seen |-> seen]
       IN  ScanTask(blocks, k + 1, used, f.seen, out \o f.out, from, start, end)

\* Each task starting from an empty set (HashSet::new() for
\* seen_timestamps.clone()).
TaskSeenNothing(seen_timestamps) == {}

\* The set each task starts from: a clone of the timestamps of the MemTable's
\* points.
TaskSeen(seen_timestamps) == seen_timestamps

\* The tasks of the SSTables of the list, from the k-th on, their results in
\* the order of the list.  tables are the SSTables as the tasks before left
\* them.  [res, out, tables, usage]
RECURSIVE ScanTasks(_, _, _, _, _, _, _, _)
\* match task.await: the error of the first task that failed, in the order
\* the tasks are awaited.
FirstError(res, rest) == IF res # "Ok" THEN [rest EXCEPT !.res = res] ELSE rest

\* The k-th task has run: its points go behind those of the tasks before.
JoinTask(task, tables, k, mem_seen, out, from, start, end) ==
  FirstError(task.res,
             ScanTasks(tables, k + 1, task.usage, mem_seen, out \o task.out, from, start, end))

\* The k-th task over the blocks its scan_blocks gave it.
SpawnTask(scan, tables, k, usage, mem_seen, out, from, start, end) ==
  JoinTask(ScanTask(scan.blocks, 1, usage, TaskSeen(mem_seen), <<>>, from, start, end),
           [tables EXCEPT ![catalog[k]].sst = scan.sst], k, mem_seen, out, from, start, end)

ScanTasks(tables, k, usage, mem_seen, out, from, start, end) ==
  IF k > Len(catalog) THEN [res |-> "Ok", out |-> out, tables |-> tables, usage |-> usage]
  ELSE SpawnTask(ScanBlocks(tables[catalog[k]].sst), tables, k, usage, mem_seen, out,
                 from, start, end)

\* sort_by_key(timestamp), a stable sort: p goes behind the points that are
\* not later than it.
RECURSIVE SortByTimestamp(_)
SortByTimestamp(points) ==
  IF Len(points) <= 1 THEN points
  ELSE LET front == SortByTimestamp(SubSeq(points, 1, Len(points) - 1))
           p == points[Len(points)]
           n == Cardinality({k \in 1..Len(front) : front[k].timestamp <= p.timestamp})
       IN  SubSeq(front, 1, n) \o <<p>> \o SubSeq(front, n + 1, Len(front))

\* The loop over memtable_points: those time_range_contains holds for.
RECURSIVE MemTablePoints(_, _, _)
MemTablePoints(memtable_points, start, end) ==
  IF Len(memtable_points) = 0 THEN <<>>
  ELSE (IF TimeRangeContains(start, end, Head(memtable_points).timestamp)
        THEN <<Head(memtable_points)>> ELSE <<>>)
       \o MemTablePoints(Tail(memtable_points), start, end)

\* The end of execute_query_internal: the error of a task, or the MemTable's
\* points and behind them those of the tasks, sorted.
QueryResult(mem, tasks, from, start, end) ==
  /\ sstables' = tasks.tables
  /\ exec' = [memory_usage |-> tasks.usage, cancelled |-> FALSE]
  /\ lsmRes' = IF tasks.res # "Ok" THEN Res("query", tasks.res, <<>>, <<from, start, end>>)
               ELSE Res("query", "Ok", SortByTimestamp(mem \o tasks.out), <<from, start, end>>)

\* execute_query_internal from the MemTable's points on.
ExecuteQueryInternal(mem, from, start, end) ==
  QueryResult(mem,
              ScanTasks(sstables, 1, 0, {mem[k].timestamp : k \in 1..Len(mem)}, <<>>,
                        from, start, end),
              from, start, end)

\* execute_query(from, Absolute {start, end})
ExecuteQuery(from, start, end) ==
  /\ ExecuteQueryInternal(MemTablePoints(GetSeriesRange(memData, from, start, end), start, end),
                          from, start, end)
  /\ UNCHANGED <<catalog, memData, memSize, flush, inserted>>
  /\ UNCHANGED aside

(***************************************************************************)
(* QueryRouter::route_query (storage/lsm/query.rs): the MemTable's points, *)
(* then the blocks of the SSTables one after the other, all under one set  *)
(* of seen timestamps.                                                     *)
(***************************************************************************)
\* The loop over the blocks of one SSTable, from the k-th on.  [out, seen]
RECURSIVE RouteBlocks(_, _, _, _, _, _, _)
\* results.extend(filtered_points), and on to the next block.
RouteFiltered(blocks, k, f, out, from, start, end) ==
  RouteBlocks(blocks, k + 1, f.seen, out \o f.out, from, start, end)

RouteBlocks(blocks, k, seen, out, from, start, end) ==
  IF k > Len(blocks) THEN [out |-> out, seen |-> seen]
  ELSE IF blocks[k].start_timestamp <= end
  THEN RouteFiltered(blocks, k, FilterBlock(blocks[k], 1, blocks[k].start_timestamp, seen, <<>>,
                                            from, start, end),
                     out, from, start, end)
  ELSE RouteBlocks(blocks, k + 1, seen, out, from, start, end)

\* The loop over the SSTables of the list, from the k-th on; tables are the
\* SSTables as the scans before left them.  [out, tables]
RECURSIVE RouteTables(_, _, _, _, _, _, _)
\* The points of the k-th SSTable go behind those of the tables before.
RouteTable(scan, r, tables, k, out, from, start, end) ==
  RouteTables([tables EXCEPT ![catalog[k]].sst = scan.sst], k + 1, r.seen, out \o r.out,
              from, start, end)

\* sstable.scan_blocks().await gave scan.
RouteScanned(scan, tables, k, seen, out, from, start, end) ==
  RouteTable(scan, RouteBlocks(scan.blocks, 1, seen, <<>>, from, start, end), tables, k, out,
             from, start, end)

RouteTables(tables, k, seen, out, from, start, end) ==
  IF k > Len(catalog) THEN [out |-> out, tables |-> tables]
  ELSE RouteScanned(ScanBlocks(tables[catalog[k]].sst), tables, k, seen, out, from, start, end)

\* route_query from the MemTable's points on.  [out, tables]
RouteFrom(mem, from, start, end) ==
  RouteTables(sstables, 1, {mem[k].timestamp : k \in 1..Len(mem)}, <<>>, from, start, end)

\* What route_query returns: the MemTable's points and behind them those of
\* the SSTables, sorted.
RoutePoints(from, start, end) ==
  SortByTimestamp(MemTablePoints(GetSeriesRange(memData, from, start, end), start, end)
                  \o RouteFrom(MemTablePoints(GetSeriesRange(memData, from, start, end),
                                              start, end),
                               from, start, end).out)

\* route_query(Query::with_series(start, end, from)): the scans leave the
\* file handles of the SSTables where they stopped.
RouteQuery(from, start, end) ==
  /\ sstables' = RouteFrom(MemTablePoints(GetSeriesRange(memData, from, start, end), start, end),
                           from, start, end).tables
  /\ lsmRes' = Res("route_query", "Ok", RoutePoints(from, start, end), <<from, start, end>>)
  /\ UNCHANGED <<catalog, memData, memSize, flush, inserted, exec>>
  /\ UNCHANGED aside

\* What execute_query returns when no task fails, from the MemTable's points
\* on.
ExecuteFrom(mem, from, start, end) ==
  SortByTimestamp(mem \o ScanTasks(sstables, 1, 0, {mem[k].timestamp : k \in 1..Len(mem)},
                                   <<>>, from, start, end).out)

ExecutePoints(from, start, end) ==
  ExecuteFrom(MemTablePoints(GetSeriesRange(memData, from, start, end), start, end),
              from, start, end)

\* The time ranges queried where SSTables are listed by hand.
QueryRanges == {<<90, 210>>, <<90, 120>>}

(***************************************************************************)
(* execute_query step by step (query/executor.rs).  The executor's Arcs    *)
(* are shared by its clones: exec holds memory_usage and cancelled.  The   *)
(* call is followed await by await: the two resets, the read guard of the  *)
(* MemTable, its points, the read guard of the list and the spawns, the    *)
(* joins; the timer of select! may end at each await behind the resets.  A *)
(* task is spawned for each SSTable of the list and runs on its own: it    *)
(* scans the blocks, lock by lock of the SSTable, then before each block   *)
(* locks cancelled, then memory_usage, which it holds while it filters the *)
(* block.                                                                  *)
(***************************************************************************)
SmallMemoryLimit == 100

SmallMaxTasks == 1

\* The configurations an executor is created with.
ExecConfigs ==
  {[memory_limit |-> SmallMemoryLimit, max_concurrent_tasks |-> SmallMaxTasks]}

\* The SSTables where the calls of two tasks are followed step by step, and
\* the calls of write_block on one of them.
MaxExecTables == 1
MaxExecBlocks == 2

\* The blocks of the SSTables queried step by step: one point, two points.
ExecBlocks ==
  { Block(150, <<0>>, <<F64One>>, <<SeriesA>>, <<TagsNone>>),
    Block(100, <<0, 50>>, <<F64One, F64Two>>, <<SeriesA, SeriesA>>, <<TagsNone, TagsKV>>) }

\* No call of execute_query is in flight.
ExecIdle == \A q \in Queries : queries[q].pc \in {"none", "returned"}

\* QueryExecutor::new(memtable, sstables, config) over the same MemTable and
\* list, before the first query.
ExecNew(config) ==
  /\ \A q \in Queries : queries[q].pc = "none"
  /\ execConfig = DefaultConfig
  /\ execConfig' = config
  /\ exec' = [memory_usage |-> 0, cancelled |-> FALSE]
  /\ UNCHANGED <<walVars, sstables, catalog, memData, memSize, memCapacity, flush, inserted,
                 lsmRes, memSync, sstCatalog, timeSeries, queries, catSync>>

\* tokio::spawn of the task of the SSTable i: it starts from a clone of
\* seen_timestamps.  For the statement of properties a task notes in after
\* whether a task of its call had failed when it last passed the check of
\* cancelled.
NewTask(i, seen_timestamps) ==
  [sst |-> i, pc |-> "spawned", blocks |-> <<>>, k |-> 1, seen |-> TaskSeen(seen_timestamps),
   out |-> <<>>, res |-> "none", after |-> FALSE, at |-> 0]

\* A task of the call q other than j has ended with an error.
SiblingFailed(q, j) ==
  \E i \in 1..Len(queries[q].tasks) :
    i # j /\ queries[q].tasks[i].pc = "done" /\ queries[q].tasks[i].res # "Ok"

\* What the steps of execute_query leave alone.
ExecFrame ==
  UNCHANGED <<walVars, sstables, catalog, memData, memSize, memCapacity, flush, inserted,
              lsmRes, memSync, sstCatalog, timeSeries, execConfig, catSync>>

\* execute_query(from, Absolute {start, end}), the call q, up to the release
\* of the lock of cancelled: *self.cancelled.lock().await = false
ExecCall(q, from, start, end) ==
  /\ queries[q].pc = "none"
  /\ q = 1 \/ queries[1].pc # "none"
  /\ exec' = [exec EXCEPT !.cancelled = FALSE]
  /\ queries' = [queries EXCEPT ![q] = [NoQuery EXCEPT !.pc = "called",
                                                       !.arg = <<from, start, end>>]]
  /\ ExecFrame

\* *self.memory_usage.lock().await = 0
ExecReset(q) ==
  /\ queries[q].pc = "called"
  /\ exec' = [exec EXCEPT !.memory_usage = 0]
  /\ queries' = [queries EXCEPT ![q].pc = "reset"]
  /\ ExecFrame

\* execute_query_internal at its first await: let memtable =
\* self.memtable.read().await.  The guard is held until the call returns or
\* its future is dropped by select!.
ExecMemTable(q) ==
  /\ queries[q].pc = "reset"
  /\ queries' = [queries EXCEPT ![q].pc = "memtable"]
  /\ UNCHANGED exec
  /\ ExecFrame

\* memtable.get_series_range(&query.from, start, end).await and the loop that
\* pushes the MemTable's points of the range to results.
ExecMemRange(q) ==
  /\ queries[q].pc = "memtable"
  /\ queries' = [queries EXCEPT
                   ![q].pc = "points",
                   ![q].results =
                      MemTablePoints(GetSeriesRange(memData, queries[q].arg[1],
                                                    queries[q].arg[2], queries[q].arg[3]),
                                     queries[q].arg[2], queries[q].arg[3])]
  /\ UNCHANGED exec
  /\ ExecFrame

\* let sstables = self.sstables.read().await and the spawn of a task for each
\* SSTable of the list as it is then, each with a clone of seen_timestamps.
\* The guard of the list is held until the call returns or its future is
\* dropped.
ExecSpawn(q) ==
  /\ queries[q].pc = "points"
  /\ queries' = [queries EXCEPT
                   ![q].pc = "joining",
                   ![q].tasks =
                      [k \in 1..Len(catalog) |->
                         NewTask(catalog[k],
                                 {queries[q].results[j].timestamp :
                                    j \in 1..Len(queries[q].results)})]]
  /\ UNCHANGED exec
  /\ ExecFrame

\* What the steps of a task leave alone.
TaskFrame ==
  UNCHANGED <<walVars, catalog, memData, memSize, memCapacity, flush, inserted,
              lsmRes, memSync, sstCatalog, timeSeries, execConfig, catSync>>

\* The task j of the call q stands at pc.
TaskAt(q, j, pc) == j \in 1..Len(queries[q].tasks) /\ queries[q].tasks[j].pc = pc

\* The tasks and the caller of write_block as they are known to the locks of
\* an SSTable; a task is known once for scan_blocks and once for read_block.
WriterId == 1
ScanId(q, j) == 10 * q + j
ReadId(q, j) == 100 + 10 * q + j

\* The locks of the SSTable the task j of the call q reads.
TaskSync(q, j) == sstables[queries[q].tasks[j].sst].sync

\* The task calls scan_blocks: self.metadata.read().await
TaskScan(q, j) ==
  /\ TaskAt(q, j, "spawned")
  /\ sstables' = [sstables EXCEPT ![queries[q].tasks[j].sst].sync.metadata =
                                     Acquire(@, ScanId(q, j), "read")]
  /\ queries' = [queries EXCEPT ![q].tasks[j].pc = "scan_blocks"]
  /\ UNCHANGED exec
  /\ TaskFrame

\* The head of the loop of scan_blocks, under the read guard of metadata:
\* read_block(i) up to its self.metadata.read().await; behind the last block
\* scan_blocks returns and the guard is dropped.
TaskScanBlock(q, j) ==
  /\ TaskAt(q, j, "scan_blocks")
  /\ Holds(TaskSync(q, j).metadata, ScanId(q, j))
  /\ IF queries[q].tasks[j].at >= Len(sstables[queries[q].tasks[j].sst].sst.meta.blocks)
     THEN /\ sstables' = [sstables EXCEPT ![queries[q].tasks[j].sst].sync.metadata =
                                             Release(@, ScanId(q, j))]
          /\ queries' = [queries EXCEPT ![q].tasks[j].pc = "boundary"]
     ELSE /\ sstables' = [sstables EXCEPT ![queries[q].tasks[j].sst].sync.metadata =
                                             Acquire(@, ReadId(q, j), "read")]
          /\ queries' = [queries EXCEPT ![q].tasks[j].pc = "read_block"]
  /\ UNCHANGED exec
  /\ TaskFrame

\* read_block has the read guard of metadata: self.file.write().await
TaskReadBlock(q, j) ==
  /\ TaskAt(q, j, "read_block")
  /\ Holds(TaskSync(q, j).metadata, ReadId(q, j))
  /\ sstables' = [sstables EXCEPT ![queries[q].tasks[j].sst].sync.file =
                                     Acquire(@, ReadId(q, j), "write")]
  /\ queries' = [queries EXCEPT ![q].tasks[j].pc = "read_file"]
  /\ UNCHANGED exec
  /\ TaskFrame

\* read_block gave r: its guards are dropped, scan_blocks keeps the block if
\* it is Ok.
TaskRead(q, j, r) ==
  /\ sstables' = [sstables EXCEPT
                    ![queries[q].tasks[j].sst] =
                       [@ EXCEPT !.sst = r.sst,
                                 !.sync.file = Release(@, ReadId(q, j)),
                                 !.sync.metadata = Release(@, ReadId(q, j))]]
  /\ queries' = [queries EXCEPT
                   ![q].tasks[j].blocks = IF r.res = "Ok" THEN Append(@, r.block) ELSE @,
                   ![q].tasks[j].at = @ + 1,
                   ![q].tasks[j].pc = "scan_blocks"]

\* read_block has the write guard of file: the seek and read_block_data.
TaskReadData(q, j) ==
  /\ TaskAt(q, j, "read_file")
  /\ Holds(TaskSync(q, j).file, ReadId(q, j))
  /\ TaskRead(q, j, ReadBlock(sstables[queries[q].tasks[j].sst].sst, queries[q].tasks[j].at))
  /\ UNCHANGED exec
  /\ TaskFrame

\* The head of the loop over the blocks: Ok(sstable_results) behind the last
\* block, else the check of cancelled.
TaskBoundary(q, j) ==
  /\ TaskAt(q, j, "boundary")
  /\ queries' =
       [queries EXCEPT ![q].tasks[j] =
          IF @.k > Len(@.blocks) THEN [@ EXCEPT !.pc = "done", !.res = "Ok"]
          ELSE IF exec.cancelled THEN [@ EXCEPT !.pc = "done", !.res = "Cancelled"]
          ELSE [@ EXCEPT !.pc = "block", !.after = SiblingFailed(q, j)]]
  /\ UNCHANGED <<sstables, exec>>
  /\ TaskFrame

\* The block b goes through the filter, if it does not start behind the end.
TaskFiltered(task, b, from, start, end) ==
  IF b.start_timestamp <= end
  THEN FilterBlock(b, 1, b.start_timestamp, task.seen, <<>>, from, start, end)
  ELSE [out |-> <<>>, seen |-> task.seen]

\* The task has filtered its k-th block.
TaskNextBlock(task, f) ==
  [task EXCEPT !.k = @ + 1, !.seen = f.seen, !.out = @ \o f.out, !.pc = "boundary"]

\* The check of the memory limit, the charge of the block and its filter,
\* under the lock of memory_usage.
TaskBlock(q, j) ==
  /\ TaskAt(q, j, "block")
  /\ IF exec.memory_usage > execConfig.memory_limit
     THEN /\ queries' = [queries EXCEPT ![q].tasks[j].pc = "done",
                                        ![q].tasks[j].res = "MemoryLimitExceeded"]
          /\ UNCHANGED exec
     ELSE /\ exec' = [exec EXCEPT !.memory_usage =
                        @ + (Len(queries[q].tasks[j].blocks[queries[q].tasks[j].k].timestamp_deltas)
                               * SizeOfDataPoint)]
          /\ queries' =
               [queries EXCEPT ![q].tasks[j] =
                  TaskNextBlock(@, TaskFiltered(@, @.blocks[@.k], queries[q].arg[1],
                                                queries[q].arg[2], queries[q].arg[3]))]
  /\ UNCHANGED sstables
  /\ TaskFrame

\* match task.await, for the tasks in the order of their spawn; behind the
\* last of them the sort.
ExecJoin(q) ==
  /\ queries[q].pc = "joining"
  /\ IF queries[q].join > Len(queries[q].tasks)
     THEN queries' = [queries EXCEPT
                        ![q].result = [res |-> "Ok", out |-> SortByTimestamp(queries[q].results)],
                        ![q].pc = "selected"]
     ELSE /\ queries[q].tasks[queries[q].join].pc = "done"
          /\ queries' =
               IF queries[q].tasks[queries[q].join].res = "Ok"
               THEN [queries EXCEPT ![q].results = @ \o queries[q].tasks[queries[q].join].out,
                                    ![q].join = @ + 1]
               ELSE [queries EXCEPT
                       ![q].result = [res |-> queries[q].tasks[queries[q].join].res, out |-> <<>>],
                       ![q].pc = "selected"]
  /\ UNCHANGED exec
  /\ ExecFrame

\* A select! whose timer gives an empty Ok.
TimedOutEmpty == [res |-> "Ok", out |-> <<>>]

\* Err(ExecutionError::ExecutionFailed("Query timeout".to_string()))
TimedOut == [res |-> "ExecutionFailed(Query timeout)", out |-> <<>>]

\* The sleep of select! ends before execute_query_internal, which waits at
\* one of its awaits: its future is dropped, and with it the guards and the
\* JoinHandles of the tasks spawned by then; the tasks run on.
ExecTimeout(q) ==
  /\ queries[q].pc \in {"reset", "memtable", "points", "joining"}
  /\ queries' = [queries EXCEPT
                   ![q].result = TimedOut,
                   ![q].timeout = TRUE,
                   ![q].pc = "selected"]
  /\ UNCHANGED exec
  /\ ExecFrame

\* The end of execute_query: Cancelled if the flag is set, else the result
\* of select!.
Selected(result, cancelled) ==
  IF cancelled THEN [res |-> "Cancelled", out |-> <<>>] ELSE result

ExecReturn(q) ==
  /\ queries[q].pc = "selected"
  /\ queries' = [queries EXCEPT ![q].res = Selected(queries[q].result, exec.cancelled).res,
                                ![q].out = Selected(queries[q].result, exec.cancelled).out,
                                ![q].pc = "returned"]
  /\ UNCHANGED exec
  /\ ExecFrame

\* cancel(); the calls in flight note that it came.
ExecCancel ==
  /\ exec' = [exec EXCEPT !.cancelled = TRUE]
  /\ queries' = [q \in Queries |->
                   IF queries[q].pc \in {"called", "reset", "memtable", "points", "joining",
                                         "selected"}
                   THEN [queries[q] EXCEPT !.cancel = TRUE] ELSE queries[q]]
  /\ ExecFrame

\* The SSTables are created and listed while no call of execute_query is in
\* flight.
ExecSstNew(max) == ExecIdle /\ Len(sstables) < max /\ SstNew

\* What the steps of write_block leave alone.
WriteFrame ==
  UNCHANGED <<walVars, catalog, memData, memSize, memCapacity, flush, inserted, exec,
              memSync, sstCatalog, timeSeries, execConfig, queries, catSync>>

\* write_block(b) on the SSTable i, which has had fewer than max blocks
\* written, called while the tasks of the queries run:
\* self.file.write().await
ExecSstWriteBlock(i, b, max) ==
  /\ sstables[i].held = "user"
  /\ Len(sstables[i].sst.wrote) < max
  /\ sstables[i].sync.pc = "idle"
  /\ sstables' = [sstables EXCEPT ![i].sync = [@ EXCEPT !.file = Acquire(@, WriterId, "write"),
                                                        !.pc = "file", !.block = b]]
  /\ UNCHANGED lsmRes
  /\ WriteFrame

\* write_block has the write guard of file: self.metadata.write().await
ExecSstWriteMetadata(i) ==
  /\ sstables[i].sync.pc = "file"
  /\ Holds(sstables[i].sync.file, WriterId)
  /\ sstables' = [sstables EXCEPT ![i].sync = [@ EXCEPT !.metadata = Acquire(@, WriterId, "write"),
                                                        !.pc = "metadata"]]
  /\ UNCHANGED lsmRes
  /\ WriteFrame

\* write_block has both guards: the metadata, the bytes, and its return.
ExecSstWritten(i) ==
  /\ sstables[i].sync.pc = "metadata"
  /\ Holds(sstables[i].sync.metadata, WriterId)
  /\ sstables' = [sstables EXCEPT
                    ![i] = [@ EXCEPT !.sst = WriteBlock(@, sstables[i].sync.block),
                                     !.sync = [metadata |-> Release(@.metadata, WriterId),
                                               file |-> Release(@.file, WriterId),
                                               pc |-> "idle", block |-> <<>>]]]
  /\ lsmRes' = Res("write_block", "Ok", <<>>, <<i>>)
  /\ WriteFrame

\* The SSTables are listed while no call of execute_query is in flight.
ExecSstRegister(i) == ExecIdle /\ SstRegister(i)

\* No call of execute_query holds the read guard of the list of SSTables.
ExecListFree == \A q \in Queries : queries[q].pc # "joining"

\* sstables.write().await.push(table) beside the calls of execute_query: the
\* write guard is given when no call holds the read guard.
ExecSstPush(i) == ExecListFree /\ SstRegister(i)

\* The points inserted into the MemTable beside the calls of execute_query.
ExecMemPoints == {[timestamp |-> 100, value |-> F64Two, tags |-> TagsNone]}

\* Two queries over the widest range, their tasks, the timer, cancel and
\* write_block at the same time; the second block of an SSTable is the one
\* of one point.
ExecNext ==
  \/ ExecSstNew(MaxExecTables)
  \/ \E i \in 1..Len(sstables), b \in ExecBlocks :
       /\ Len(sstables[i].sst.wrote) = 0 \/ Len(b.values) = 1
       /\ ExecSstWriteBlock(i, b, MaxExecBlocks)
  \/ \E i \in 1..Len(sstables) : ExecSstWriteMetadata(i)
  \/ \E i \in 1..Len(sstables) : ExecSstWritten(i)
  \/ \E i \in 1..Len(sstables) : ExecSstRegister(i)
  \/ \E config \in ExecConfigs : ExecNew(config)
  \/ \E q \in Queries : ExecCall(q, SeriesA, 90, 210)
  \/ \E q \in Queries : ExecReset(q)
  \/ \E q \in Queries : ExecMemTable(q)
  \/ \E q \in Queries : ExecMemRange(q)
  \/ \E q \in Queries : ExecSpawn(q)
  \/ \E q \in Queries : \E j \in 1..Len(queries[q].tasks) : TaskScan(q, j)
  \/ \E q \in Queries : \E j \in 1..Len(queries[q].tasks) : TaskScanBlock(q, j)
  \/ \E q \in Queries : \E j \in 1..Len(queries[q].tasks) : TaskReadBlock(q, j)
  \/ \E q \in Queries : \E j \in 1..Len(queries[q].tasks) : TaskReadData(q, j)
  \/ \E q \in Queries : \E j \in 1..Len(queries[q].tasks) : TaskBoundary(q, j)
  \/ \E q \in Queries : \E j \in 1..Len(queries[q].tasks) : TaskBlock(q, j)
  \/ \E q \in Queries : ExecJoin(q)
  \/ \E q \in Queries : ExecTimeout(q)
  \/ \E q \in Queries : ExecReturn(q)
  \/ ExecCancel

\* One query, the tasks of its SSTables at the same time; insert on the
\* MemTable and the push of an SSTable to the list come between its steps.
ExecTasksNext ==
  \/ ExecSstNew(MaxTables)
  \/ \E i \in 1..Len(sstables), b \in ExecBlocks : ExecSstWriteBlock(i, b, MaxQueryBlocks)
  \/ \E i \in 1..Len(sstables) : ExecSstWriteMetadata(i)
  \/ \E i \in 1..Len(sstables) : ExecSstWritten(i)
  \/ \E i \in 1..Len(sstables) : ExecSstPush(i)
  \/ \E p \in ExecMemPoints : MemInsert(SeriesA, p)
  \/ \E config \in ExecConfigs : ExecNew(config)
  \/ \E r \in QueryRanges : ExecCall(1, SeriesA, r[1], r[2])
  \/ ExecReset(1)
  \/ ExecMemTable(1)
  \/ ExecMemRange(1)
  \/ ExecSpawn(1)
  \/ \E j \in 1..Len(queries[1].tasks) : TaskScan(1, j)
  \/ \E j \in 1..Len(queries[1].tasks) : TaskScanBlock(1, j)
  \/ \E j \in 1..Len(queries[1].tasks) : TaskReadBlock(1, j)
  \/ \E j \in 1..Len(queries[1].tasks) : TaskReadData(1, j)
  \/ \E j \in 1..Len(queries[1].tasks) : TaskBoundary(1, j)
  \/ \E j \in 1..Len(queries[1].tasks) : TaskBlock(1, j)
  \/ ExecJoin(1)
  \/ ExecTimeout(1)
  \/ ExecReturn(1)
  \/ ExecCancel

\* One query and the tasks of its SSTables, and a second call of
\* execute_query that starts on the executor while they run and is followed
\* up to its first await of execute_query_internal; write_block is called
\* before the first call of execute_query.
ExecSiblingsNext ==
  \/ ExecSstNew(MaxTables)
  \/ \E i \in 1..Len(sstables), b \in ExecBlocks :
       queries[1].pc = "none" /\ ExecSstWriteBlock(i, b, MaxQueryBlocks)
  \/ \E i \in 1..Len(sstables) : ExecSstWriteMetadata(i)
  \/ \E i \in 1..Len(sstables) : ExecSstWritten(i)
  \/ \E i \in 1..Len(sstables) : ExecSstRegister(i)
  \/ \E config \in ExecConfigs : ExecNew(config)
  \/ \E r \in QueryRanges : ExecCall(1, SeriesA, r[1], r[2])
  \/ ExecCall(2, SeriesA, 90, 210)
  \/ \E q \in Queries : ExecReset(q)
  \/ ExecMemTable(1)
  \/ ExecMemRange(1)
  \/ ExecSpawn(1)
  \/ \E j \in 1..Len(queries[1].tasks) : TaskScan(1, j)
  \/ \E j \in 1..Len(queries[1].tasks) : TaskScanBlock(1, j)
  \/ \E j \in 1..Len(queries[1].tasks) : TaskReadBlock(1, j)
  \/ \E j \in 1..Len(queries[1].tasks) : TaskReadData(1, j)
  \/ \E j \in 1..Len(queries[1].tasks) : TaskBoundary(1, j)
  \/ \E j \in 1..Len(queries[1].tasks) : TaskBlock(1, j)
  \/ ExecJoin(1)
  \/ ExecTimeout(1)
  \/ ExecReturn(1)
  \/ ExecCancel

(***************************************************************************)
(* TimeSeries (storage/data.rs).  add_point takes &self; the read guard of *)
(* last_timestamp and its write guard are temporaries dropped at the end   *)
(* of their statements, so a call is three steps between which the calls   *)
(* of other tasks run: the check, the update of last_timestamp, the push.  *)
(***************************************************************************)
MaxAddPoints == 4

\* A tag value that is not ASCII: "é".
TagsAccent == {<<(<<107>>), (<<195, 169>>)>>}

\* Two tags, the value of one and the key of the other not ASCII:
\* {"k": "é", "é": "v"}.
TagsTwoAccents == {<<(<<107>>), (<<195, 169>>)>>, <<(<<195, 169>>), (<<118>>)>>}

\* The points add_point is called with.
SeriesPoints ==
  { [timestamp |-> -1, value |-> F64One, tags |-> TagsNone],
    [timestamp |-> 0, value |-> F64One, tags |-> TagsNone],
    [timestamp |-> 100, value |-> F64Two, tags |-> TagsNone],
    [timestamp |-> 150, value |-> F64Two, tags |-> TagsKV],
    [timestamp |-> 150, value |-> F64Two, tags |-> TagsAccent],
    [timestamp |-> 150, value |-> F64Two, tags |-> TagsTwoAccents] }

\* chars().all(|c| c.is_ascii()) on the UTF-8 bytes of a string
IsAscii(bytes) == \A k \in 1..Len(bytes) : bytes[k] < 128

\* The orders in which a HashMap may hand out its tags.
TagOrders(tags) ==
  {o \in [1..Cardinality(tags) -> tags] :
     \A i, j \in 1..Cardinality(tags) : i # j => o[i] # o[j]}

\* The loop of validate over the tags in the order given, from the k-th on:
\* the key of a tag, then its value.
RECURSIVE ValidateTags(_, _)
ValidateTags(order, k) ==
  IF k > Len(order) THEN "Ok"
  ELSE IF ~IsAscii(order[k][1]) THEN "InvalidTagKey"
  ELSE IF ~IsAscii(order[k][2]) THEN "InvalidTagValue"
  ELSE ValidateTags(order, k + 1)

\* DataPoint::validate, the HashMap handing out the tags in the order given
Validate(p, order) ==
  IF p.timestamp < 0 THEN "InvalidTimestamp" ELSE ValidateTags(order, 1)

\* add_point: point.timestamp <= last_ts
NonIncreasing(timestamp, last_ts) == timestamp <= last_ts

\* add_point(point) on task t, up to the end of the check: validate, then the
\* read of last_timestamp and the comparison.
AddPointCheck(t, p) ==
  /\ timeSeries.task[t].pc = "idle"
  /\ timeSeries.calls < MaxAddPoints
  /\ \E order \in TagOrders(p.tags) :
     timeSeries' =
       [timeSeries EXCEPT
          !.calls = @ + 1,
          !.task[t] =
            IF Validate(p, order) # "Ok"
            THEN [pc |-> "idle", point |-> p, res |-> Validate(p, order)]
            ELSE IF NonIncreasing(p.timestamp, timeSeries.last_timestamp)
            THEN [pc |-> "idle", point |-> p, res |-> "NonIncreasingTimestamp"]
            ELSE [pc |-> "checked", point |-> p, res |-> "none"]]
  /\ UNCHANGED <<walVars, storeVars, execConfig, queries, catSync>>

\* *self.last_timestamp.write().await = point.timestamp
AddPointStamp(t) ==
  /\ timeSeries.task[t].pc = "checked"
  /\ timeSeries' =
       [timeSeries EXCEPT !.last_timestamp = timeSeries.task[t].point.timestamp,
                          !.task[t].pc = "stamped"]
  /\ UNCHANGED <<walVars, storeVars, execConfig, queries, catSync>>

\* points.push(point); Ok(())
AddPointPush(t) ==
  /\ timeSeries.task[t].pc = "stamped"
  /\ timeSeries' =
       [timeSeries EXCEPT !.points = Append(@, timeSeries.task[t].point),
                          !.task[t].pc = "idle",
                          !.task[t].res = "Ok"]
  /\ UNCHANGED <<walVars, storeVars, execConfig, queries, catSync>>

TimeSeriesNext ==
  \/ \E t \in MemTasks, p \in SeriesPoints : AddPointCheck(t, p)
  \/ \E t \in MemTasks : AddPointStamp(t)
  \/ \E t \in MemTasks : AddPointPush(t)

QueryInit ==
  /\ walConfig = DefaultWalConfig
  /\ WalNew
  /\ LsmNew

QueryNext ==
  \/ \E s \in Series, p \in MemPoints : MemInsert(s, p)
  \/ SstNew
  \/ \E i \in 1..Len(sstables), b \in SstBlocks : SstWriteBlock(i, b, MaxQueryBlocks)
  \/ \E i \in 1..Len(sstables) : SstOpen(i)
  \/ \E i \in 1..Len(sstables) : SstRegister(i)
  \/ \E s \in Series, r \in QueryRanges : ExecuteQuery(s, r[1], r[2])

SpecQuery == QueryInit /\ [][QueryNext]_vars

\* The router and the executor over one MemTable and one list of SSTables.
RouteNext ==
  \/ \E p \in MemPoints : MemInsert(SeriesA, p)
  \/ SstNew
  \/ \E i \in 1..Len(sstables), b \in ExecBlocks : SstWriteBlock(i, b, MaxQueryBlocks)
  \/ \E i \in 1..Len(sstables) : SstRegister(i)
  \/ \E r \in QueryRanges : ExecuteQuery(SeriesA, r[1], r[2])
  \/ \E r \in QueryRanges : RouteQuery(SeriesA, r[1], r[2])

SpecRoute == QueryInit /\ [][RouteNext]_vars

\* Queries over one listed SSTable that is written to and read from between
\* them.
SstQueryNext ==
  \/ \E i \in 1..Len(sstables), b \in SstBlocks : SstWriteBlock(i, b, MaxSstBlocks)
  \/ \E i \in 1..Len(sstables), index \in 0..MaxSstBlocks : SstReadBlock(i, index)
  \/ \E i \in 1..Len(sstables) : SstRegister(i)
  \/ \E r \in QueryRanges : ExecuteQuery(SeriesA, r[1], r[2])

SpecSstQuery == SstInit /\ [][SstQueryNext]_vars

\* The executor, its queries and their tasks at the same time.
SpecExec == QueryInit /\ [][ExecNext]_vars
SpecExecTasks == QueryInit /\ [][ExecTasksNext]_vars

SpecExecSiblings == QueryInit /\ [][ExecSiblingsNext]_vars

\* A call of execute_query that has its result goes on to its end.
SpecExecFair == SpecExec /\ WF_vars(\E q \in Queries : ExecReturn(q))

\* The TimeSeries, its callers at the same time.
SpecTimeSeries == QueryInit /\ [][TimeSeriesNext]_vars

\* The MemTable alone, its callers one at a time.
SpecMem == QueryInit /\ [][MemNext]_vars

\* The MemTable alone, its callers together.
SpecMemTasks == QueryInit /\ [][MemTasksNext]_vars

(***************************************************************************)
(* FlushManager (storage/lsm/flush.rs).  The flush task runs beside the    *)
(* callers: it takes its snapshot, writes one block per series and swaps   *)
(* the MemTable in steps of its own.                                       *)
(***************************************************************************)
\* The task has not ended.
FlushRunning(f) == f.task \in {"spawned", "writing"}

\* self.flush_task.is_some()
FlushOutstanding(f) == f.handle

\* is_flushing()
IsFlushing == FlushOutstanding(flush)

\* MemTable::new(0) for the new MemTable.
NewMemTableOfNone(capacity) == [data |-> EmptyData, size |-> 0, capacity |-> 0]

\* MemTable::new(memtable_guard.capacity())
NewMemTable(capacity) == [data |-> EmptyData, size |-> 0, capacity |-> capacity]

\* The task started last as one that runs on without a handle.
Detached(f) ==
  [task |-> f.task, sst |-> f.sst, data |-> f.data, todo |-> f.todo, capacity |-> f.capacity]

\* start_flush(memtable), of which max may start a task.  The methods of
\* the manager take &mut self: none is called while a call of
\* wait_for_flush awaits.  A task that was left running without a handle
\* runs on beside the new one.
StartFlush(max) ==
  /\ ~flush.waiter
  /\ IF FlushOutstanding(flush)
     THEN /\ lsmRes' = Res("start_flush", "FlushInProgress", <<>>, <<>>)
          /\ UNCHANGED <<sstables, flush>>
     ELSE /\ flush.started < max
          /\ Len(sstables) < MaxTables
          /\ ~FlushRunning(flush.old)
          /\ sstables' = Append(sstables, [sst |-> NewSSTable, held |-> "flush", sync |-> NoSstCalls])
          /\ flush' = [flush EXCEPT !.task = "spawned", !.sst = Len(sstables) + 1,
                                    !.started = @ + 1, !.failed = FALSE, !.handle = TRUE,
                                    !.old = IF FlushRunning(flush) THEN Detached(flush) ELSE @]
          /\ lsmRes' = Res("start_flush", "Ok", <<>>, <<>>)
  /\ UNCHANGED <<catalog, memData, memSize, inserted, exec>>
  /\ UNCHANGED aside

\* The flush task: memtable.read(), get_data().
FlushSnapshot ==
  /\ flush.task = "spawned"
  /\ \E order \in SeriesOrders(memData) :
       flush' = [flush EXCEPT !.task = "writing", !.data = memData, !.todo = order,
                              !.capacity = memCapacity]
  /\ UNCHANGED <<sstables, catalog, memData, memSize, inserted, exec, lsmRes>>
  /\ UNCHANGED aside

\* The DataBlock the task makes of the points of a series: the first point
\* gives start_timestamp, each later one its distance from it.
FlushBlock(series_name, points) ==
  Block(IF Len(points) = 0 THEN 0 ELSE points[1].timestamp,
        [k \in 1..(IF Len(points) = 0 THEN 0 ELSE Len(points) - 1) |->
           points[k + 1].timestamp - points[1].timestamp],
        [k \in 1..Len(points) |-> points[k].value],
        <<series_name>>,
        [k \in 1..Len(points) |-> points[k].tags])

\* The flush task: the block of the next series, write_block.
FlushWrite ==
  /\ flush.task = "writing"
  /\ flush.todo # <<>>
  /\ LET s == Head(flush.todo)
     IN  sstables' = [sstables EXCEPT
                        ![flush.sst].sst = WriteBlock(@, FlushBlock(s, flush.data[s]))]
  /\ flush' = [flush EXCEPT !.todo = Tail(@)]
  /\ UNCHANGED <<catalog, memData, memSize, inserted, exec, lsmRes>>
  /\ UNCHANGED aside

\* write_block that meets an I/O error after cut bytes of the block: the
\* metadata are updated before the bytes are written.
WriteBlockFailing(t, b, cut) ==
  [WriteBlock(t, b) EXCEPT
     !.file = WriteAt(t.file, t.pos, SubSeq(BlockBytes(b), 1, cut)),
     !.pos = t.pos + cut,
     !.wrote = t.wrote]

\* The flush task: write_block of the next series fails after cut bytes; the
\* ? ends the task with the SSTableError as FlushError::SSTable, the
\* SSTable is dropped, its file remains.
FlushWriteFails(cut) ==
  /\ flush.task = "writing"
  /\ flush.todo # <<>>
  /\ sstables' = [sstables EXCEPT
                    ![flush.sst] = [sst |-> WriteBlockFailing(sstables[flush.sst].sst,
                                              FlushBlock(Head(flush.todo),
                                                         flush.data[Head(flush.todo)]), cut),
                                    held |-> "none", sync |-> NoSstCalls]]
  /\ flush' = [flush EXCEPT !.task = "done", !.res = "SSTable", !.failed = TRUE]
  /\ UNCHANGED <<catalog, memData, memSize, inserted, exec, lsmRes>>
  /\ UNCHANGED aside

\* The flush task: the MemTable is replaced by a new one of its capacity;
\* the task ends with Ok and drops its SSTable.
FlushSwap ==
  /\ flush.task = "writing"
  /\ flush.todo = <<>>
  /\ memData' = NewMemTable(flush.capacity).data
  /\ memSize' = NewMemTable(flush.capacity).size
  /\ memCapacity' = NewMemTable(flush.capacity).capacity
  /\ sstables' = [sstables EXCEPT ![flush.sst].held = "none"]
  /\ flush' = [flush EXCEPT !.task = "done", !.res = "Ok", !.swapped = Len(inserted)]
  /\ UNCHANGED <<catalog, inserted, exec, lsmRes>>
  /\ UNCHANGED <<walVars, memSync, sstCatalog, taskVars>>

\* task.await.map_err(|e| FlushError::FlushFailed(e.to_string()))?: the task
\* was joined, its own result is returned as it is.
Joined(res) == res

\* wait_for_flush up to its first await: flush_task.take(), and the task
\* polled.  Without a handle it returns Ok at once, with the handle of a task
\* that has ended it returns the task's result; else it awaits the task.
WaitForFlush ==
  /\ ~flush.waiter
  /\ IF ~flush.handle
     THEN /\ lsmRes' = Res("wait_for_flush", "Ok", <<>>, <<"none">>)
          /\ UNCHANGED flush
     ELSE IF flush.task = "done"
     THEN /\ lsmRes' = Res("wait_for_flush", Joined(flush.res), <<>>, <<"done">>)
          /\ flush' = [flush EXCEPT !.task = "none", !.done = @ + 1, !.handle = FALSE]
     ELSE /\ flush' = [flush EXCEPT !.handle = FALSE, !.waiter = TRUE]
          /\ UNCHANGED lsmRes
  /\ UNCHANGED <<sstables, catalog, memData, memSize, inserted, exec>>
  /\ UNCHANGED aside

\* task.await of wait_for_flush: the task, which ran when the call came, has
\* ended, the call returns.
WaitJoin ==
  /\ flush.waiter
  /\ flush.task = "done"
  /\ lsmRes' = Res("wait_for_flush", Joined(flush.res), <<>>, <<"running">>)
  /\ flush' = [flush EXCEPT !.task = "none", !.done = @ + 1, !.waiter = FALSE]
  /\ UNCHANGED <<sstables, catalog, memData, memSize, inserted, exec>>
  /\ UNCHANGED aside

\* The future of wait_for_flush is dropped while it is Pending (a timeout, a
\* select! around it): the JoinHandle goes with it.  A task that still runs
\* runs on; the result of one that has ended since the last poll is read by
\* no one.
WaitDrop ==
  /\ flush.waiter
  /\ lsmRes' = Res("wait_for_flush", "Dropped", <<>>, <<"dropped", flush.task>>)
  /\ flush' = [flush EXCEPT !.waiter = FALSE]
  /\ UNCHANGED <<sstables, catalog, memData, memSize, inserted, exec>>
  /\ UNCHANGED aside

\* The steps of a task that runs on without a handle beside the task started
\* last: its snapshot,
DetachedSnapshot ==
  /\ flush.old.task = "spawned"
  /\ \E order \in SeriesOrders(memData) :
       flush' = [flush EXCEPT !.old = [@ EXCEPT !.task = "writing", !.data = memData,
                                                !.todo = order, !.capacity = memCapacity]]
  /\ UNCHANGED <<sstables, catalog, memData, memSize, inserted, exec, lsmRes>>
  /\ UNCHANGED aside

\* the block of its next series,
DetachedWrite ==
  /\ flush.old.task = "writing"
  /\ flush.old.todo # <<>>
  /\ sstables' = [sstables EXCEPT
                    ![flush.old.sst].sst =
                       WriteBlock(@, FlushBlock(Head(flush.old.todo),
                                                flush.old.data[Head(flush.old.todo)]))]
  /\ flush' = [flush EXCEPT !.old.todo = Tail(@)]
  /\ UNCHANGED <<catalog, memData, memSize, inserted, exec, lsmRes>>
  /\ UNCHANGED aside

\* a write_block that fails,
DetachedWriteFails(cut) ==
  /\ flush.old.task = "writing"
  /\ flush.old.todo # <<>>
  /\ sstables' = [sstables EXCEPT
                    ![flush.old.sst] =
                       [sst |-> WriteBlockFailing(sstables[flush.old.sst].sst,
                                                  FlushBlock(Head(flush.old.todo),
                                                             flush.old.data[Head(flush.old.todo)]),
                                                  cut),
                        held |-> "none", sync |-> NoSstCalls]]
  /\ flush' = [flush EXCEPT !.old = NoDetached]
  /\ UNCHANGED <<catalog, memData, memSize, inserted, exec, lsmRes>>
  /\ UNCHANGED aside

\* and its swap of the MemTable; its result is read by no one.
DetachedSwap ==
  /\ flush.old.task = "writing"
  /\ flush.old.todo = <<>>
  /\ memData' = NewMemTable(flush.old.capacity).data
  /\ memSize' = NewMemTable(flush.old.capacity).size
  /\ memCapacity' = NewMemTable(flush.old.capacity).capacity
  /\ sstables' = [sstables EXCEPT ![flush.old.sst].held = "none"]
  /\ flush' = [flush EXCEPT !.old = NoDetached, !.swapped = Len(inserted)]
  /\ UNCHANGED <<catalog, inserted, exec, lsmRes>>
  /\ UNCHANGED <<walVars, memSync, sstCatalog, taskVars>>

\* The time ranges queried around a flush.
FlushRanges == {<<100, 150>>, <<100, 100>>, <<150, 150>>}

FlushNext ==
  \/ \E s \in Series, p \in MemPoints : MemInsert(s, p)
  \/ StartFlush(MaxQueryFlushes)
  \/ FlushSnapshot
  \/ FlushWrite
  \/ FlushSwap
  \/ WaitForFlush
  \/ WaitJoin
  \/ WaitDrop
  \/ \E i \in 1..Len(sstables) : SstOpen(i)
  \/ \E i \in 1..Len(sstables) : SstRegister(i)
  \/ \E s \in Series, r \in FlushRanges : ExecuteQuery(s, r[1], r[2])

SpecFlush == QueryInit /\ [][FlushNext]_vars

\* How many bytes of a block reach the file when its write fails.
FlushCuts == {0, 12}

\* The flush manager, its task and the callers of insert, without queries.
FlushTaskNext ==
  \/ \E s \in Series, p \in MemPoints : MemInsert(s, p)
  \/ StartFlush(MaxFlushes)
  \/ FlushSnapshot
  \/ FlushWrite
  \/ \E cut \in FlushCuts : FlushWriteFails(cut)
  \/ FlushSwap
  \/ WaitForFlush
  \/ WaitJoin
  \/ WaitDrop
  \/ DetachedSnapshot
  \/ DetachedWrite
  \/ \E cut \in FlushCuts : DetachedWriteFails(cut)
  \/ DetachedSwap

SpecFlushTask == QueryInit /\ [][FlushTaskNext]_vars

(***************************************************************************)
(* Properties of the write-ahead log.                                      *)
(***************************************************************************)
\* The points of the calls of write so far, in call order.
WalAppended == [i \in 1..Len(walWrites) |-> walWrites[i].entry]

\* Every call of write so far returned Ok, and there was one at least.
WalAllOk == walWrites # <<>> /\ \A i \in 1..Len(walWrites) : walWrites[i].res = "Ok"

\* Every point written so far has a finite value.
WalAllFinite == \A i \in 1..Len(walWrites) : IsFinite(walWrites[i].entry.value)

\* C1: when every write returned Ok and all points went to the one segment
\* file of the directory, replay returns Ok and has handed its callback
\* exactly the points written (series name, timestamp, value, tags), in the
\* order of the writes.
WalRoundTripOneSegment ==
  (walRes.op = "replay" /\ WalAllOk /\ Len(walDisk) = 1)
    => (walRes.res = "Ok" /\ walRes.out = WalAppended)

\* C2: when the writes (all Ok; finite values, to set the case apart from that
\* of C1) have rotated the log into two or more segment files, replay returns
\* Ok and has handed its callback every point written exactly once, in the
\* order of the writes.
WalReplayInAppendOrder ==
  (walRes.op = "replay" /\ WalAllOk /\ WalAllFinite /\ Len(walDisk) >= 2)
    => (walRes.res = "Ok" /\ walRes.out = WalAppended)

\* How many times replay handed the point e to its callback, and how many
\* calls of write with e returned Ok.
WalDelivered(e) == Cardinality({k \in 1..Len(walRes.out) : walRes.out[k] = e})
WalWrittenOk(e) ==
  Cardinality({i \in 1..Len(walWrites) : walWrites[i].entry = e /\ walWrites[i].res = "Ok"})

\* C39: when a call of write returned Err, a later replay does not deliver
\* the point of that call, and it delivers every point of a call that
\* returned Ok before or after it (finite values, to set the case apart from
\* that of C1).
WalFailedAppendClean ==
  ( /\ walRes.op = "replay"
    /\ WalAllFinite
    /\ \E i \in 1..Len(walWrites) : walWrites[i].res # "Ok" )
  => \A e \in WalPoints : WalDelivered(e) = WalWrittenOk(e)

\* C9: a call of write returns Ok only when it has appended the entry's JSON
\* line and its CRC line to the current segment file (to what the file held
\* before, or to the header of a file the call created); a call in which the
\* creation of the segment, the writing of the entry or a flush fails returns
\* Io or Serialization.
WalWriteOkOnlyFlushed ==
  [][Len(walWrites') = Len(walWrites) + 1 =>
       LET w == walWrites'[Len(walWrites')]
           lines == EntryJson(w.entry) \o <<10>> \o Crc32c(EntryJson(w.entry)) \o <<10>>
           before == IF w.seg \in 1..Len(walDisk) THEN walDisk[w.seg]
                     ELSE HeaderJson(now) \o <<10>>
       IN  /\ w.res = "Ok" =>
                /\ w.seg = walCur'.path
                /\ w.seg \in 1..Len(walDisk')
                /\ walDisk'[w.seg] = before \o lines
           /\ w.fault \in {"create", "header", "open", "json", "crc"} =>
                w.res \in {"Io", "Serialization"}
           /\ walRes' = [op |-> "write", res |-> w.res, out |-> <<>>]]_vars

\* C9 witness: a write whose CRC flush failed returned Io after a write that
\* returned Ok, both to the same segment.
WalWriteOkThenTorn ==
  /\ Len(walWrites) = 2
  /\ walWrites[1].res = "Ok" /\ walWrites[2].res = "Io"
  /\ walWrites[2].fault = "crc"
  /\ walWrites[1].seg = walWrites[2].seg
  /\ walRes = [op |-> "write", res |-> "Io", out |-> <<>>]

\* C10: after writes that all returned Ok (finite values, to set the case
\* apart from that of C1), with or without rotation, verify returns Ok(true).
WalVerifyTrueAfterWrites ==
  (walRes.op = "verify" /\ WalAllOk /\ WalAllFinite) => walRes.res = "true"

(***************************************************************************)
(* SSTableCatalog (storage/lsm/catalog.rs), its callers one at a time.     *)
(* The SSTable i lies at the path "<i>.sst" of the catalog's directory.    *)
(***************************************************************************)
\* The set of the elements of a sequence.
Range(f) == {f[k] : k \in 1..Len(f)}

\* format!("{}", timestamp)
TsText(ts) ==
  IF ts.far = 1 THEN <<57, 50, 50, 51, 51, 55, 50, 48, 51, 54, 56, 53, 52, 55, 55, 53, 56, 48, 55>>
  ELSE IF ts.far = -1
  THEN <<45, 57, 50, 50, 51, 51, 55, 50, 48, 51, 54, 56, 53, 52, 55, 55, 53, 56, 48, 56>>
  ELSE IF ts.at < 0 THEN <<45>> \o Dec(0 - ts.at)
  ELSE Dec(ts.at)

\* The path of the SSTable i: "<i>.sst"
SstPath(i) == Dec(i) \o <<46, 115, 115, 116>>

\* generate_table_id: format!("{}_{}", info.min_timestamp, info.path.display())
GenerateTableId(info) == TsText(info.min_timestamp) \o <<95>> \o info.path

\* The SSTableInfo add_table makes of the SSTable i.
TableInfo(i) ==
  [path |-> SstPath(i),
   min_timestamp |-> sstables[i].sst.meta.min_timestamp,
   max_timestamp |-> sstables[i].sst.meta.max_timestamp,
   series_names |-> Range(sstables[i].sst.meta.series_names),
   point_count |-> sstables[i].sst.meta.point_count,
   blocks |-> [k \in 1..Len(sstables[i].sst.meta.blocks) |->
                 [offset |-> sstables[i].sst.meta.blocks[k].offset,
                  point_count |-> sstables[i].sst.meta.blocks[k].point_count,
                  start_timestamp |-> sstables[i].sst.meta.blocks[k].start_timestamp,
                  series_names |-> {}]]]

\* map.insert(key, value)
MapInsert(map, key, value) ==
  [x \in DOMAIN map \cup {key} |-> IF x = key THEN value ELSE map[x]]

\* map.remove(key)
MapRemove(map, key) == [x \in DOMAIN map \ {key} |-> map[x]]

\* series_index.entry(name).or_insert_with(HashSet::new).insert(id), for the
\* names given.
IndexInsert(index, names, id) ==
  [x \in DOMAIN index \cup names |->
     IF x \in names
     THEN (IF x \in DOMAIN index THEN index[x] ELSE {}) \cup {id}
     ELSE index[x]]

\* tables.remove(id) of each of the names given that the index holds, and
\* series_index.remove(name) where no id is left.
IndexRemove(index, names, id) ==
  [x \in {y \in DOMAIN index : ~(y \in names /\ index[y] \ {id} = {})} |->
     IF x \in names THEN index[x] \ {id} ELSE index[x]]

\* SSTable::new(path) on the path of the SSTable i, whose earlier handle is
\* dropped: the file is opened without truncation, the header is written
\* over its start, the metadata are those of a table without blocks.
SstNewAgain(i) ==
  /\ sstables[i].held \in {"user", "none"}
  /\ ~Listed(i)
  /\ sstables' = [sstables EXCEPT ![i] =
                    [sst |-> [file |-> WriteAt(sstables[i].sst.file, 0, SstHeader),
                              pos |-> Len(SstHeader), meta |-> EmptyMeta,
                              wrote |-> sstables[i].sst.wrote,
                              since |-> Len(sstables[i].sst.wrote)],
                     held |-> "user", sync |-> NoSstCalls]]
  /\ lsmRes' = Res("new", "Ok", <<>>, <<i>>)
  /\ UNCHANGED <<catalog, memData, memSize, flush, inserted, exec>>
  /\ UNCHANGED aside

\* add_table(table), table the SSTable i
CatAddTable(i) ==
  /\ sstables[i].held = "user"
  /\ sstCatalog' =
       [tables |-> MapInsert(sstCatalog.tables, GenerateTableId(TableInfo(i)), TableInfo(i)),
        series_index |-> IndexInsert(sstCatalog.series_index, TableInfo(i).series_names,
                                     GenerateTableId(TableInfo(i)))]
  /\ lsmRes' = Res("add_table", "Ok", <<>>, <<i>>)
  /\ UNCHANGED <<sstables, catalog, memData, memSize, flush, inserted, exec>>
  /\ UNCHANGED <<walVars, memCapacity, memSync, taskVars>>

\* remove_table(table_id)
CatRemoveTable(table_id) ==
  /\ sstCatalog' =
       IF table_id \in DOMAIN sstCatalog.tables
       THEN [tables |-> MapRemove(sstCatalog.tables, table_id),
             series_index |-> IndexRemove(sstCatalog.series_index,
                                          sstCatalog.tables[table_id].series_names, table_id)]
       ELSE sstCatalog
  /\ lsmRes' = Res("remove_table", "Ok", <<>>, <<table_id>>)
  /\ UNCHANGED <<sstables, catalog, memData, memSize, flush, inserted, exec>>
  /\ UNCHANGED <<walVars, memCapacity, memSync, taskVars>>

\* get_tables_for_series(series_name): the infos returned, whose order is
\* that of the HashSet of ids.
TablesForSeries(series_name) ==
  IF series_name \in DOMAIN sstCatalog.series_index
  THEN {sstCatalog.tables[id] :
          id \in sstCatalog.series_index[series_name] \cap DOMAIN sstCatalog.tables}
  ELSE {}

\* unique_series_count(): series_index.len()
UniqueSeriesCount == Cardinality(DOMAIN sstCatalog.series_index)

\* get_tables_for_series(series_name) and unique_series_count()
CatTablesForSeries(series_name) ==
  /\ lsmRes' = Res("get_tables_for_series", "Ok",
                   <<TablesForSeries(series_name), UniqueSeriesCount>>, <<series_name>>)
  /\ UNCHANGED <<sstables, catalog, memData, memSize, flush, inserted, exec>>
  /\ UNCHANGED aside

\* The ids remove_table is called with: those of the SSTables as they are,
\* registered or not.
CatalogIds == {GenerateTableId(TableInfo(i)) : i \in 1..Len(sstables)}

\* The blocks written to the SSTables given to the catalog: one of a series,
\* one of another, both from the same timestamp on.
CatalogBlocks ==
  {b \in SstBlocks : b.start_timestamp = 150}

CatalogNext ==
  \/ SstNew
  \/ \E i \in 1..Len(sstables), b \in CatalogBlocks : SstWriteBlock(i, b, MaxCatalogBlocks)
  \/ \E i \in 1..Len(sstables) : SstOpen(i)
  \/ \E i \in 1..Len(sstables) : SstNewAgain(i)
  \/ \E i \in 1..Len(sstables) : CatAddTable(i)
  \/ \E id \in CatalogIds : CatRemoveTable(id)
  \/ \E s \in Series : CatTablesForSeries(s)

SpecCatalog == QueryInit /\ [][CatalogNext]_vars

(***************************************************************************)
(* The catalog called from several tasks (storage/lsm/catalog.rs).  tables *)
(* and series_index are tokio RwLocks: a guard is given in the order of    *)
(* the requests, a read guard beside other read guards, a write guard      *)
(* alone.  add_table and remove_table take tables, then series_index;      *)
(* get_tables_for_series takes series_index, then tables; the guards of a  *)
(* call are dropped at its end.  add_table takes the read guard of the     *)
(* metadata of its SSTable before them and keeps it to its end.            *)
(***************************************************************************)
MaxCatCalls == 4

\* The lock a call takes first, and the guard it takes.
FirstLock(op) ==
  IF op \in {"get_tables_for_series", "unique_series_count"} THEN "series_index" ELSE "tables"
SecondLock(op) == IF FirstLock(op) = "tables" THEN "series_index" ELSE "tables"
GuardOf(op) == IF op \in {"add_table", "remove_table"} THEN "write" ELSE "read"

\* What the calls of the catalog leave alone.
CatFrame ==
  UNCHANGED <<walVars, catalog, memData, memSize, memCapacity, flush, inserted,
              exec, lsmRes, memSync, timeSeries, execConfig, queries>>

CatTaskFrame == UNCHANGED sstables /\ CatFrame

\* The task t as it is known to the locks of an SSTable.
CatId(t) == 200 + t

\* The task t calls add_table(table) with the SSTable i: it runs up to
\* table.metadata.read().await
CatAddCall(t, i) ==
  /\ catSync.task[t].pc = "idle"
  /\ catSync.calls < MaxCatCalls
  /\ sstables[i].held = "user"
  /\ sstables' = [sstables EXCEPT ![i].sync.metadata = Acquire(@, CatId(t), "read")]
  /\ catSync' = [catSync EXCEPT
                   !.calls = @ + 1,
                   !.task[t] = [op |-> "add_table", pc |-> "metadata", arg |-> <<i>>,
                                out |-> <<>>, seen |-> <<>>]]
  /\ UNCHANGED sstCatalog
  /\ CatFrame

\* add_table under the read guard of the metadata: the SSTableInfo and the
\* id, then self.tables.write().await
CatAddInfo(t) ==
  /\ catSync.task[t].pc = "metadata"
  /\ Holds(sstables[catSync.task[t].arg[1]].sync.metadata, CatId(t))
  /\ catSync' = [catSync EXCEPT
                   !.lock.tables = Acquire(@, t, "write"),
                   !.task[t].pc = "first",
                   !.task[t].arg = <<TableInfo(catSync.task[t].arg[1]),
                                     GenerateTableId(TableInfo(catSync.task[t].arg[1])),
                                     catSync.task[t].arg[1]>>]
  /\ UNCHANGED sstCatalog
  /\ CatTaskFrame

\* The task t calls op, a call other than add_table: it runs up to the await
\* of its first lock.  arg is the id for remove_table, the series name for
\* get_tables_for_series.
CatCall(t, op, arg) ==
  /\ catSync.task[t].pc = "idle"
  /\ catSync.calls < MaxCatCalls
  /\ catSync' = [catSync EXCEPT
                   !.calls = @ + 1,
                   !.lock[FirstLock(op)] = Acquire(@, t, GuardOf(op)),
                   !.task[t] = [op |-> op, pc |-> "first", arg |-> arg, out |-> <<>>,
                                seen |-> <<>>]]
  /\ UNCHANGED sstCatalog
  /\ CatTaskFrame

\* The call of the task t has its first guard and is of the calls that take
\* a second: add_table inserts into tables before it asks for series_index.
CatSecondLock(t) ==
  /\ catSync.task[t].pc = "first"
  /\ catSync.task[t].op \in {"add_table", "remove_table", "get_tables_for_series"}
  /\ Holds(catSync.lock[FirstLock(catSync.task[t].op)], t)
  /\ sstCatalog' =
       IF catSync.task[t].op = "add_table"
       THEN [sstCatalog EXCEPT !.tables = MapInsert(@, catSync.task[t].arg[2], catSync.task[t].arg[1])]
       ELSE sstCatalog
  /\ catSync' = [catSync EXCEPT
                   !.lock[SecondLock(catSync.task[t].op)] = Acquire(@, t, GuardOf(catSync.task[t].op)),
                   !.task[t].pc = "second"]
  /\ CatTaskFrame

\* The end of a call: the guards are dropped, the one taken last first.
CatReturn(t, out, seen) ==
  catSync' = [catSync EXCEPT
                !.lock = [tables |-> Release(catSync.lock.tables, t),
                          series_index |-> Release(catSync.lock.series_index, t)],
                !.task[t].pc = "idle",
                !.task[t].out = out,
                !.task[t].seen = seen]

\* add_table and remove_table with both guards: the update of series_index,
\* and for remove_table that of tables before it; at the end of add_table
\* the guard of the metadata is dropped too.
CatWriteTask(t) ==
  /\ catSync.task[t].pc = "second"
  /\ catSync.task[t].op \in {"add_table", "remove_table"}
  /\ Holds(catSync.lock.series_index, t)
  /\ sstCatalog' =
       IF catSync.task[t].op = "add_table"
       THEN [sstCatalog EXCEPT
               !.series_index = IndexInsert(@, catSync.task[t].arg[1].series_names,
                                            catSync.task[t].arg[2])]
       ELSE IF catSync.task[t].arg[1] \in DOMAIN sstCatalog.tables
       THEN [tables |-> MapRemove(sstCatalog.tables, catSync.task[t].arg[1]),
             series_index |-> IndexRemove(sstCatalog.series_index,
                                          sstCatalog.tables[catSync.task[t].arg[1]].series_names,
                                          catSync.task[t].arg[1])]
       ELSE sstCatalog
  /\ CatReturn(t, <<>>, <<>>)
  /\ sstables' =
       IF catSync.task[t].op = "add_table"
       THEN [sstables EXCEPT ![catSync.task[t].arg[3]].sync.metadata = Release(@, CatId(t))]
       ELSE sstables
  /\ CatFrame

\* get_tables_for_series with both guards: what it returns, and the two maps
\* as it read them.
CatForSeriesTask(t) ==
  /\ catSync.task[t].pc = "second"
  /\ catSync.task[t].op = "get_tables_for_series"
  /\ Holds(catSync.lock.tables, t)
  /\ CatReturn(t, <<TablesForSeries(catSync.task[t].arg[1])>>, <<sstCatalog>>)
  /\ UNCHANGED sstCatalog
  /\ CatTaskFrame

\* get_all_tables (as get_tables_in_range and total_points, under the read
\* guard of tables alone) and unique_series_count (under that of
\* series_index alone).
CatOneMapTask(t) ==
  /\ catSync.task[t].pc = "first"
  /\ catSync.task[t].op \in {"get_all_tables", "unique_series_count"}
  /\ Holds(catSync.lock[FirstLock(catSync.task[t].op)], t)
  /\ CatReturn(t,
               IF catSync.task[t].op = "get_all_tables"
               THEN <<{sstCatalog.tables[id] : id \in DOMAIN sstCatalog.tables}>>
               ELSE <<UniqueSeriesCount>>,
               <<>>)
  /\ UNCHANGED sstCatalog
  /\ CatTaskFrame

\* The SSTables are created between the calls of the catalog; write_block
\* is called beside them.
CatIdle == \A t \in MemTasks : catSync.task[t].pc = "idle"
CatSstNew == CatIdle /\ Len(sstables) < MaxExecTables /\ SstNew
CatSstNewAgain(i) == CatIdle /\ sstables[i].sync.pc = "idle" /\ SstNewAgain(i)

CatalogTasksNext ==
  \/ CatSstNew
  \/ \E i \in 1..Len(sstables), b \in CatalogBlocks : ExecSstWriteBlock(i, b, MaxCatalogBlocks)
  \/ \E i \in 1..Len(sstables) : ExecSstWriteMetadata(i)
  \/ \E i \in 1..Len(sstables) : ExecSstWritten(i)
  \/ \E i \in 1..Len(sstables) : CatSstNewAgain(i)
  \/ \E t \in MemTasks, i \in 1..Len(sstables) : CatAddCall(t, i)
  \/ \E t \in MemTasks : CatAddInfo(t)
  \/ \E t \in MemTasks, id \in CatalogIds : CatCall(t, "remove_table", <<id>>)
  \/ \E t \in MemTasks, s \in Series : CatCall(t, "get_tables_for_series", <<s>>)
  \/ \E t \in MemTasks, op \in {"get_all_tables", "unique_series_count"} : CatCall(t, op, <<>>)
  \/ \E t \in MemTasks : CatSecondLock(t)
  \/ \E t \in MemTasks : CatWriteTask(t)
  \/ \E t \in MemTasks : CatForSeriesTask(t)
  \/ \E t \in MemTasks : CatOneMapTask(t)

\* The catalog, its callers at the same time.
SpecCatalogTasks == QueryInit /\ [][CatalogTasksNext]_vars

\* A step of write, the call it records, and the rule of the rotation on the
\* state before it.
WalWriteStep == Len(walWrites') = Len(walWrites) + 1
WalWriteCall == walWrites'[Len(walWrites')]
RotationDue ==
  \/ walCur.path = 0
  \/ walCur.size >= walConfig.size
  \/ now - walCur.created_at >= walConfig.age

\* C29: write creates a segment file exactly when there is no current
\* segment, or the size of the current one is >= max_segment_size, or its age
\* is >= max_segment_age (and the creation does not fail); a file it creates
\* starts with the header line; otherwise the current segment stays.  A
\* write that returns Ok has put the two lines of its entry at the end of the
\* segment that is current after the decision, behind the header of a new
\* segment or behind what the existing one held, and changed no other file.
WalRotationRule ==
  [][WalWriteStep =>
       /\ Len(walDisk') > Len(walDisk) => RotationDue
       /\ (RotationDue /\ WalWriteCall.fault \notin {"create", "header"})
            => Len(walDisk') > Len(walDisk)
       /\ ~RotationDue => (Len(walDisk') = Len(walDisk) /\ walCur'.path = walCur.path)
       /\ WalWriteCall.fault # "header" =>
            \A f \in (Len(walDisk) + 1)..Len(walDisk') :
              SubSeq(walDisk'[f], 1, Len(HeaderJson(now)) + 1) = HeaderJson(now) \o <<10>>
       /\ WalWriteCall.res = "Ok" =>
            /\ walCur'.path = IF RotationDue THEN Len(walDisk') ELSE walCur.path
            /\ walDisk'[walCur'.path] =
                 (IF RotationDue THEN HeaderJson(now) \o <<10>> ELSE walDisk[walCur.path])
                   \o EntryText[WalWriteCall.entry] \o <<10>>
                   \o Crc(EntryText[WalWriteCall.entry]) \o <<10>>
            /\ \A f \in 1..Len(walDisk) :
                 f # walCur'.path => walDisk'[f] = walDisk[f]]_vars

\* C29 witness: the second write found the segment of the first at its
\* maximal age and went to a new one; both returned Ok.
WalRotatedByAge ==
  /\ Len(walWrites) = 2
  /\ walWrites[1].res = "Ok" /\ walWrites[2].res = "Ok"
  /\ walWrites[1].seg # walWrites[2].seg
  /\ walConfig.age = SmallSegmentAge
  /\ now - StartClock = walConfig.age
  /\ Len(walDisk) = 2

(***************************************************************************)
(* Properties of damaged logs.                                             *)
(***************************************************************************)
\* How often the entry e occurs among the first n of a sequence of entries.
RECURSIVE CountIn(_, _, _)
CountIn(entries, n, e) ==
  IF n = 0 THEN 0
  ELSE CountIn(entries, n - 1, e) + (IF entries[n] = e THEN 1 ELSE 0)

\* C11: after writes that returned Ok, the end of a segment (the end of its
\* last entry and the CRC) is overwritten with garbage: verify returns
\* Ok(false).
WalVerifyFalseAfterOverwrite ==
  (walRes.op = "verify" /\ walDamage.kind = "overwrite") => walRes.res = "false"

\* C12: the stored CRC of an entry differs from the CRC32C of its JSON bytes:
\* replay returns CorruptedEntry, and the callback has seen neither that entry
\* nor one appended after it, only entries appended before it.
WalReplayStopsAtBadCrc ==
  (walRes.op = "replay" /\ walDamage.kind = "crc") =>
    /\ walRes.res = "CorruptedEntry"
    /\ \A e \in WalPoints :
         CountIn(walRes.out, Len(walRes.out), e) <= CountIn(WalAppended, walDamage.entry - 1, e)

\* C13: the last entry of a segment is torn, in its JSON body or in its CRC
\* line (finite values, to set the case apart from that of C1): replay
\* returns Ok, the callback has seen every entry appended before the torn
\* one, and has not seen the torn one.
WalReplayOkAtTornTail ==
  (walRes.op = "replay" /\ walDamage.kind = "torn" /\ WalAllFinite) =>
    /\ walRes.res = "Ok"
    /\ \A e \in WalPoints :
         /\ CountIn(walRes.out, Len(walRes.out), e) >= CountIn(WalAppended, walDamage.entry - 1, e)
         /\ CountIn(walRes.out, Len(walRes.out), e)
              <= CountIn(WalAppended, Len(WalAppended), e)
                 - (IF WalAppended[walDamage.entry] = e THEN 1 ELSE 0)


(***************************************************************************)
(* Properties of the MemTable.                                             *)
(***************************************************************************)
\* A step of insert (every other operation leaves its own name in the
\* result), and the series and the point it was called with.
InsertStep == lsmRes'.op = "insert"
InsertSeries == lsmRes'.arg[1]
InsertPoint == lsmRes'.arg[2]

\* The series holds a point, and the point inserted is not later than its
\* last.
InsertLate ==
  /\ Len(memData[InsertSeries]) > 0
  /\ InsertPoint.timestamp <= memData[InsertSeries][Len(memData[InsertSeries])].timestamp

\* The number of points the MemTable stores.
RECURSIVE PointsOf(_, _)
PointsOf(data, held) ==
  IF held = {} THEN 0
  ELSE LET s == CHOOSE x \in held : TRUE
       IN  Len(data[s]) + PointsOf(data, held \ {s})
TotalPoints == PointsOf(memData, Series)

\* C14: insert returns Err(InvalidTimestampOrder) exactly when the series
\* holds a point of this MemTable and the point's timestamp is not greater
\* than that of the series' last point; then the points of every series and
\* the size stay as they are; otherwise the point goes behind the points of
\* its series, no other series changes, and the size grows by one.
MemInsertOrderContract ==
  [][InsertStep =>
       /\ (lsmRes'.res = "InvalidTimestampOrder") <=> InsertLate
       /\ InsertLate => (memData' = memData /\ memSize' = memSize)
       /\ ~InsertLate =>
            /\ lsmRes'.res = "Ok"
            /\ memData' = [memData EXCEPT ![InsertSeries] = Append(@, InsertPoint)]
            /\ memSize' = memSize + 1]_vars

\* C14 witness: an insert was refused for a series that holds a point, beside
\* a series that holds one too.
MemInsertRefused ==
  /\ lsmRes.op = "insert" /\ lsmRes.res = "InvalidTimestampOrder"
  /\ Len(memData[lsmRes.arg[1]]) > 0
  /\ lsmRes.arg[2].timestamp = memData[lsmRes.arg[1]][Len(memData[lsmRes.arg[1]])].timestamp
  /\ \A s \in Series : Len(memData[s]) > 0

\* C15: the size is the number of points stored since the table was empty,
\* and an insert that returns Ok returns needs_flush = (size before it + 1 >=
\* capacity) and stores its point: below capacity - 1 points it returns
\* false, from there on true, whatever the size.
MemNeedsFlushContract ==
  /\ [](memSize = TotalPoints)
  /\ [][(InsertStep /\ lsmRes'.res = "Ok") =>
          /\ lsmRes'.out = <<memSize + 1 >= MemCapacity>>
          /\ memSize' = memSize + 1
          /\ Len(memData'[InsertSeries]) = Len(memData[InsertSeries]) + 1]_vars

\* C15 witness: an insert into a table that was at its capacity already has
\* returned Ok(true).
MemInsertBeyondCapacity ==
  /\ lsmRes.op = "insert" /\ lsmRes.res = "Ok" /\ lsmRes.out = <<TRUE>>
  /\ memSize = MemCapacity + 1
  /\ TotalPoints = memSize

\* C16: get_range returns the pairs of all series within the range, each
\* once, in ascending order of their timestamps.
MemGetRangeAscending ==
  lsmRes.op = "get_range" =>
    /\ \A k \in 1..(Len(lsmRes.out) - 1) :
         lsmRes.out[k].point.timestamp <= lsmRes.out[k + 1].point.timestamp
    /\ \A s \in Series : \A j \in 1..Len(memData[s]) :
         (memData[s][j].timestamp >= lsmRes.arg[1] /\ memData[s][j].timestamp <= lsmRes.arg[2])
           => Cardinality({k \in 1..Len(lsmRes.out) :
                             lsmRes.out[k] = [series |-> s, point |-> memData[s][j]]}) = 1
    /\ \A k \in 1..Len(lsmRes.out) :
         /\ lsmRes.out[k].point.timestamp >= lsmRes.arg[1]
         /\ lsmRes.out[k].point.timestamp <= lsmRes.arg[2]
         /\ \E j \in 1..Len(memData[lsmRes.out[k].series]) :
              memData[lsmRes.out[k].series][j] = lsmRes.out[k].point


\* How often the pair e is stored in the table.
StoredCount(e) ==
  Cardinality({k \in 1..Len(memData[e.series]) : memData[e.series][k] = e.point})

\* How often the pair e is among the entries a clear under way has drained.
RECURSIVE TakenCount(_, _)
TakenCount(e, tasks) ==
  IF tasks = {} THEN 0
  ELSE LET t == CHOOSE x \in tasks : TRUE
       IN  (IF memSync.task[t].op = "clear" /\ memSync.task[t].pc # "idle"
            THEN CountIn(memSync.task[t].out, Len(memSync.task[t].out), e) ELSE 0)
           + TakenCount(e, tasks \ {t})

\* C17: clear returns every stored entry and leaves no data and size 0 as
\* one atomic step.  Whoever can look at data or at size (a task that holds
\* no guard while one of the write guards is free, and a task that has just
\* taken both) finds as many points stored as size says; the clear that
\* drains takes every pair stored and leaves none, and returns with size 0;
\* and every pair insert returned Ok for is stored, or among the entries a
\* clear returned or is about to return, as often as it was inserted.
MemClearAtomic ==
  /\ []((memSync.size = 0 \/ memSync.data = 0) => memSize = TotalPoints)
  /\ [](\A t \in MemTasks : memSync.task[t].pc = "has_both" => memSize = TotalPoints)
  /\ [](\A t \in MemTasks :
          (memSync.task[t].op = "clear" /\ memSync.task[t].pc \in {"leaving", "size_dropped"})
            => (memData = EmptyData /\ memSize = 0))
  /\ [][\A t \in MemTasks :
          (At(t, "clear", "has_both") /\ memSync'.task[t].pc = "drained") =>
            /\ memData' = EmptyData
            /\ Len(memSync'.task[t].out) = TotalPoints
            /\ \A s \in Series : \A k \in 1..Len(memData[s]) :
                 CountIn(memSync'.task[t].out, Len(memSync'.task[t].out),
                         [series |-> s, point |-> memData[s][k]])
                   = StoredCount([series |-> s, point |-> memData[s][k]])]_vars
  /\ [](\A s \in Series, p \in MemPoints :
          CountIn(memSync.ok, Len(memSync.ok), [series |-> s, point |-> p])
            <= StoredCount([series |-> s, point |-> p])
               + CountIn(memSync.drained, Len(memSync.drained), [series |-> s, point |-> p])
               + TakenCount([series |-> s, point |-> p], MemTasks))

\* C17 witness: a clear has emptied the data and not yet reset the size,
\* while another task waits in insert; an insert that returned Ok before is
\* among the entries drained.
MemClearMidway ==
  \E t \in MemTasks, u \in MemTasks :
    /\ At(t, "clear", "drained") /\ memSize > 0 /\ memData = EmptyData
    /\ At(u, "insert", "called")
    /\ Len(memSync.ok) > 0
    /\ CountIn(memSync.task[t].out, Len(memSync.task[t].out), memSync.ok[1]) = 1

\* C30: in every reachable state the size of the MemTable is at most its
\* capacity + 1.
MemSizeWithinCapacity == memSize <= memCapacity + 1

\* The task whose guard the call of the task t waits for: the holder of the
\* lock its next await asks for, 0 if the lock is free or t is at no await.
MemWaitsFor(t) ==
  IF At(t, "insert", "called") \/ At(t, "clear", "has_data") \/ At(t, "size", "called")
  THEN memSync.size
  ELSE IF At(t, "insert", "has_size") \/ At(t, "clear", "called") \/ At(t, "get_data", "called")
  THEN memSync.data
  ELSE 0

\* C36: the calls of the MemTable never deadlock: while a call is under way,
\* a call under way can take its next step (the lock it asks for is free, or
\* it is at no await), so that every call gets both locks and returns.
MemNoDeadlock ==
  (\E t \in MemTasks : memSync.task[t].pc # "idle")
    => \E t \in MemTasks : memSync.task[t].pc # "idle" /\ MemWaitsFor(t) = 0

(***************************************************************************)
(* Properties of the flush manager.                                        *)
(***************************************************************************)
\* A step of start_flush that is seen: its result differs from the one
\* before, or a task was started.
StartFlushStep ==
  /\ lsmRes'.op = "start_flush"
  /\ lsmRes.op # "start_flush" \/ lsmRes.res # lsmRes'.res \/ flush'.started # flush.started

\* C18: start_flush returns FlushInProgress exactly when a flush started
\* before was not yet awaited to its end by wait_for_flush, and starts
\* nothing then; otherwise it starts a task.  So never more than one flush
\* task exists; and is_flushing(), whenever it can be called, is true
\* exactly from a start_flush that returned Ok until wait_for_flush has
\* returned.
FlushOneAtATime ==
  /\ [][StartFlushStep =>
          /\ (lsmRes'.res = "FlushInProgress") <=> (flush.started > flush.done)
          /\ lsmRes'.res = "FlushInProgress" => (flush' = flush /\ sstables' = sstables)
          /\ lsmRes'.res # "FlushInProgress" =>
               (lsmRes'.res = "Ok" /\ flush'.started = flush.started + 1)]_vars
  /\ [](~(FlushRunning(flush) /\ FlushRunning(flush.old)))
  /\ [](~flush.waiter => (IsFlushing <=> flush.started > flush.done))

\* is_empty()
IsEmpty == memSize = 0

\* wait_for_flush has returned the result of a task: one that had ended when
\* the call came, or one it awaited.
FlushAwaited ==
  lsmRes.op = "wait_for_flush" /\ lsmRes.arg \in {<<"done">>, <<"running">>}

FlushedPoints(b) ==
  {[series |-> b.series_names[1],
    timestamp |-> IF k = 1 THEN b.start_timestamp
                  ELSE b.start_timestamp + b.timestamp_deltas[k - 1],
    value |-> b.values[k]] : k \in 1..Len(b.values)}

\* The points in the SSTables the flush tasks wrote.
AllFlushedPoints ==
  UNION {UNION {FlushedPoints(sstables[i].sst.wrote[k]) : k \in 1..Len(sstables[i].sst.wrote)} :
           i \in 1..Len(sstables)}

\* C26: no accepted insert is lost by a flush that runs beside it: when no
\* flush is under way, every point insert returned Ok for is in the MemTable
\* or in an SSTable a flush wrote.
FlushLosesNoInsert ==
  (~FlushRunning(flush) /\ ~FlushRunning(flush.old)) =>
    \A j \in 1..Len(inserted) :
      \/ \E k \in 1..Len(memData[inserted[j].series]) :
           memData[inserted[j].series][k] = inserted[j].point
      \/ [series |-> inserted[j].series, timestamp |-> inserted[j].point.timestamp,
          value |-> inserted[j].point.value] \in AllFlushedPoints

\* A flush task has ended with Ok: the MemTable was swapped.
FlushSucceeded ==
  /\ flush.res = "Ok"
  /\ flush.task = "done" \/ (flush.task = "none" /\ flush.done >= 1)

\* C27: a flush that succeeds registers its SSTable with the readers after
\* the swap: once the task has ended with Ok, the SSTable it wrote is in the
\* list of the executor or in the catalog, where a query finds its points.
FlushRegistersSSTable ==
  FlushSucceeded =>
    \/ Listed(flush.sst)
    \/ \E id \in DOMAIN sstCatalog.tables : sstCatalog.tables[id].path = SstPath(flush.sst)

\* C28: when a write of a block fails with an I/O error during a flush, the
\* task ends there, the MemTable keeps all its points and is not replaced,
\* the file written so far remains, and wait_for_flush returns FlushFailed.
FlushWriteFailureContract ==
  /\ [][(flush'.failed /\ ~flush.failed) =>
          /\ memData' = memData /\ memSize' = memSize
          /\ flush'.task = "done"
          /\ Len(sstables'[flush.sst].sst.file) >= Len(sstables[flush.sst].sst.file)]_vars
  /\ []((FlushAwaited /\ flush.failed)
          => lsmRes.res = "FlushFailed")

(***************************************************************************)
(* Properties of the executor                                              *)
(***************************************************************************)
\* The task j of the call q leaves the head of its loop with a block ahead.
BoundaryStep(q, j) ==
  /\ TaskAt(q, j, "boundary")
  /\ queries[q].tasks[j].k <= Len(queries[q].tasks[j].blocks)
  /\ queries'[q].tasks[j].pc # "boundary"

\* C22: when cancel() was called while the call q of execute_query was in
\* flight, a task of q that comes to its next block boundary ends with
\* Cancelled, and q returns Cancelled, never Ok.
CancelContract ==
  /\ [](\A q \in Queries :
          (queries[q].pc = "returned" /\ queries[q].cancel) => queries[q].res = "Cancelled")
  /\ [][\A q \in Queries : \A j \in 1..Len(queries[q].tasks) :
          (queries[q].cancel /\ BoundaryStep(q, j))
            => queries'[q].tasks[j].res = "Cancelled"]_vars

\* C37: cancellation is per query: a call of execute_query returns Cancelled
\* if cancel() was called while it was in flight, whatever other call of
\* execute_query started on the executor or a clone of it before it read the
\* flag, and a call returns Cancelled only if cancel() was called while it was
\* in flight, never for a cancel() that came before it started.
CancelPerQuery ==
  \A q \in Queries :
    queries[q].pc = "returned" => (queries[q].res = "Cancelled" <=> queries[q].cancel)

\* The scanning tasks of the call q that exist: spawned and not ended.
ScanningTasks(q) ==
  {j \in 1..Len(queries[q].tasks) : queries[q].tasks[j].pc # "done"}

\* C32: at every moment of a query the number of its SSTable scanning tasks
\* that exist at the same time is at most max_concurrent_tasks, whatever the
\* number of SSTables of the list.
ConcurrentTasksBounded ==
  \A q \in Queries : Cardinality(ScanningTasks(q)) <= execConfig.max_concurrent_tasks

\* C33: when a task of a call fails, the call's result of the join is the
\* error of the first task that failed, in the order the tasks are awaited,
\* and the other tasks of the call are cancelled: one that passes the head of
\* its loop after a task of the call has failed filters no further block.
SiblingsCancelled ==
  /\ [](\A q \in Queries :
          (queries[q].pc \in {"selected", "returned"} /\ ~queries[q].timeout
             /\ queries[q].result.res # "Ok")
            => /\ queries[q].join <= Len(queries[q].tasks)
               /\ queries[q].result.res = queries[q].tasks[queries[q].join].res
               /\ \A j \in 1..(queries[q].join - 1) : queries[q].tasks[j].res = "Ok")
  /\ [][\A q \in Queries : \A j \in 1..Len(queries[q].tasks) :
          (TaskAt(q, j, "block") /\ queries[q].tasks[j].after)
            => queries'[q].tasks[j].k = queries[q].tasks[j].k]_vars

\* The points the call q returned.
Emitted(q) == Len(queries[q].out)

\* C23: a query that returns Ok has charged sizeof(DataPoint) for each point
\* it emitted and no more than memory_limit in all; a task that finds
\* memory_usage above the limit ends with MemoryLimitExceeded.
MemoryBudgetContract ==
  /\ [](\A q \in Queries :
          (queries[q].pc = "returned" /\ queries[q].res = "Ok")
            => /\ exec.memory_usage <= execConfig.memory_limit
               /\ exec.memory_usage = Emitted(q) * SizeOfDataPoint)
  /\ [][\A q \in Queries : \A j \in 1..Len(queries[q].tasks) :
          (/\ TaskAt(q, j, "block")
           /\ exec.memory_usage > execConfig.memory_limit
           /\ queries'[q].tasks[j].pc # "block")
            => queries'[q].tasks[j].res = "MemoryLimitExceeded"]_vars

\* C24: a call of execute_query whose timer ended before
\* execute_query_internal returns ExecutionFailed("Query timeout"), or
\* Cancelled if cancel() was called while it was in flight, and it does
\* return; neither the end of the timer nor the return changes the state of
\* a task of the call.
TimeoutContract ==
  /\ [](\A q \in Queries :
          (queries[q].pc = "returned" /\ queries[q].timeout)
            => \/ queries[q].res = "ExecutionFailed(Query timeout)"
               \/ queries[q].res = "Cancelled" /\ queries[q].cancel)
  /\ [][\A q \in Queries :
          (queries[q].pc # "selected" /\ queries'[q].pc = "selected" /\ queries'[q].timeout)
          \/ (queries[q].pc = "selected" /\ queries'[q].pc = "returned" /\ queries[q].timeout)
            => queries'[q].tasks = queries[q].tasks]_vars
  /\ \A q \in Queries : (queries[q].timeout ~> queries[q].pc = "returned")

\* C24 witness: a call has returned ExecutionFailed("Query timeout") and a
\* task of it is still between two blocks.
TimedOutWithTaskRunning ==
  \E q \in Queries :
    /\ queries[q].pc = "returned"
    /\ queries[q].timeout
    /\ queries[q].res = "ExecutionFailed(Query timeout)"
    /\ \E j \in 1..Len(queries[q].tasks) : queries[q].tasks[j].pc = "block"

(***************************************************************************)
(* Properties of the time series                                           *)
(***************************************************************************)
\* No call of add_point is under way.
TimeSeriesQuiet == \A t \in MemTasks : timeSeries.task[t].pc = "idle"

\* C25: once the calls of add_point have returned, whatever their order and
\* overlap, the stored points are in strictly increasing order of timestamp
\* and last_timestamp is the timestamp of the last of them; and a call with
\* a valid point whose timestamp is <= last_timestamp returns
\* NonIncreasingTimestamp and changes neither points nor last_timestamp.
AddPointContract ==
  /\ [](TimeSeriesQuiet =>
          /\ \A j \in 1..Len(timeSeries.points) : \A k \in 1..Len(timeSeries.points) :
               j < k => timeSeries.points[j].timestamp < timeSeries.points[k].timestamp
          /\ timeSeries.points # <<>> =>
               timeSeries.last_timestamp = timeSeries.points[Len(timeSeries.points)].timestamp)
  /\ [][\A t \in MemTasks :
          (/\ timeSeries.task[t].pc = "idle"
           /\ timeSeries'.calls = timeSeries.calls + 1
           /\ timeSeries'.task[t] # timeSeries.task[t]
           /\ \A order \in TagOrders(timeSeries'.task[t].point.tags) :
                Validate(timeSeries'.task[t].point, order) = "Ok"
           /\ timeSeries'.task[t].point.timestamp <= timeSeries.last_timestamp)
          => /\ timeSeries'.task[t].res = "NonIncreasingTimestamp"
             /\ timeSeries'.points = timeSeries.points
             /\ timeSeries'.last_timestamp = timeSeries.last_timestamp]_vars

\* C40: add_point on a series that holds no points accepts every point that
\* passes validate, the point with timestamp 0 included: as long as the series
\* holds no point and no call is under way, no call has been refused with
\* NonIncreasingTimestamp (the points validate refuses get its errors).
EmptySeriesAcceptsValid ==
  (timeSeries.points = <<>> /\ TimeSeriesQuiet)
    => \A t \in MemTasks : timeSeries.task[t].res # "NonIncreasingTimestamp"

(***************************************************************************)
(* Properties of the catalog.                                              *)
(***************************************************************************)
\* The infos of the registered SSTables whose series names contain name.
RegisteredWith(name) ==
  {sstCatalog.tables[id] :
     id \in {x \in DOMAIN sstCatalog.tables : name \in sstCatalog.tables[x].series_names}}

\* C20: after any calls of add_table and remove_table,
\* get_tables_for_series(name) returns the registered SSTables whose series
\* names contain name and no others; the series index holds an id under a
\* name exactly when the table map holds the id with a table whose series
\* names contain the name; and unique_series_count is the number of the
\* series of the registered tables.
CatalogIndexConsistent ==
  /\ \A name \in Series : TablesForSeries(name) = RegisteredWith(name)
  /\ \A name \in Series : \A id \in CatalogIds \cup DOMAIN sstCatalog.tables :
       (name \in DOMAIN sstCatalog.series_index /\ id \in sstCatalog.series_index[name])
         <=> (id \in DOMAIN sstCatalog.tables /\ name \in sstCatalog.tables[id].series_names)
  /\ UniqueSeriesCount =
       Cardinality(UNION {sstCatalog.tables[id].series_names : id \in DOMAIN sstCatalog.tables})

\* The maps tables and series_index agree on the SSTables they hold: an id
\* of tables stands in the index under each of the series of its table, and
\* an id of the index is an id of tables.
MapsAgree(cat) ==
  /\ \A id \in DOMAIN cat.tables : \A name \in cat.tables[id].series_names :
       name \in DOMAIN cat.series_index /\ id \in cat.series_index[name]
  /\ \A name \in DOMAIN cat.series_index : \A id \in cat.series_index[name] :
       id \in DOMAIN cat.tables

\* C21: whatever calls of add_table and remove_table run at the same time,
\* the two maps as a call of get_tables_for_series read them agree: no
\* SSTable is in the table map and not in the series index, or the reverse.
\* (The other accessors read one of the two maps alone.)
CatalogSnapshotsConsistent ==
  \A t \in MemTasks :
    (catSync.task[t].op = "get_tables_for_series" /\ catSync.task[t].pc = "idle")
      => MapsAgree(catSync.task[t].seen[1])

\* The call of write_block on the SSTable i has the guard its last await
\* asked for.
WriteCanStep(i) ==
  \/ sstables[i].sync.pc = "file" /\ Holds(sstables[i].sync.file, WriterId)
  \/ sstables[i].sync.pc = "metadata" /\ Holds(sstables[i].sync.metadata, WriterId)

\* The call of the task t has the guard its last await asked for.
CatCanStep(t) ==
  \/ catSync.task[t].pc = "metadata"
       /\ Holds(sstables[catSync.task[t].arg[1]].sync.metadata, CatId(t))
  \/ catSync.task[t].pc = "first"
       /\ Holds(catSync.lock[FirstLock(catSync.task[t].op)], t)
  \/ catSync.task[t].pc = "second"
       /\ Holds(catSync.lock[SecondLock(catSync.task[t].op)], t)

\* C35: the calls of the catalog never deadlock: while a call is under way,
\* a call under way (or the write_block a call waits behind) has the guard
\* it asked for and can go on, so that every call gets its locks and
\* returns.
CatNoDeadlock ==
  (\E t \in MemTasks : catSync.task[t].pc # "idle")
    => \/ \E t \in MemTasks : CatCanStep(t)
       \/ \E i \in 1..Len(sstables) : WriteCanStep(i)

(***************************************************************************)
(* Properties of the SSTable.                                              *)
(***************************************************************************)
\* C7: read_block of the index of the block written last to an SSTable, with
\* any blocks written and read before it, returns Ok with a block equal to
\* the block handed to write_block in start_timestamp, timestamp_deltas,
\* values, series_names and tags.
SstBlockRoundTrip ==
  lsmRes.op = "read_block" =>
    LET t == sstables[lsmRes.arg[1]].sst
    IN  lsmRes.arg[2] = Len(t.meta.blocks) - 1 =>
          /\ lsmRes.res = "Ok"
          /\ lsmRes.out = <<t.wrote[Len(t.wrote)]>>

\* C7 witness: the third block of an SSTable, written where the second had
\* been after a read of the first, has been read back.
SstReadBackAfterOverwrite ==
  /\ lsmRes.op = "read_block" /\ lsmRes.res = "Ok" /\ lsmRes.arg[2] = 2
  /\ LET t == sstables[lsmRes.arg[1]].sst
     IN  /\ Len(t.meta.blocks) = 3
         /\ t.meta.blocks[3].offset = t.meta.blocks[2].offset
         /\ Len(t.wrote[3].values) = 2
         /\ lsmRes.out[1] = t.wrote[3]

\* C8: scan_blocks on an SSTable, reopened with SSTable::open or not, yields
\* the blocks written to its file, all of them and in the order written.
SstScanYieldsWritten ==
  lsmRes.op = "scan_blocks" => lsmRes.out = sstables[lsmRes.arg[1]].sst.wrote

(***************************************************************************)
(* Properties of the query executor.                                       *)
(***************************************************************************)
\* The series and the range of the query that lsmRes is the outcome of.
QFrom == lsmRes.arg[1]
QStart == lsmRes.arg[2]
QEnd == lsmRes.arg[3]
QueryOk == lsmRes.op = "query" /\ lsmRes.res = "Ok"

\* The points of a block: timestamps by the running sum of the deltas.
RECURSIVE DeltaSum(_, _)
DeltaSum(deltas, k) == IF k = 0 THEN 0 ELSE deltas[k] + DeltaSum(deltas, k - 1)
BlockPoints(b) ==
  {[series |-> b.series_names[k],
    timestamp |-> b.start_timestamp + DeltaSum(b.timestamp_deltas, k),
    value |-> b.values[k]] : k \in 1..ZipLen(b)}

\* The points of the queried series and range in the blocks written to the
\* SSTables of the executor's list, and those in the MemTable.
QuerySstPoints ==
  {q \in UNION {UNION {BlockPoints(sstables[catalog[c]].sst.wrote[k]) :
                         k \in 1..Len(sstables[catalog[c]].sst.wrote)} :
                  c \in 1..Len(catalog)} :
     q.series = QFrom /\ q.timestamp >= QStart /\ q.timestamp <= QEnd}
QueryMemPoints ==
  {memData[QFrom][k] : k \in {j \in 1..Len(memData[QFrom]) :
     memData[QFrom][j].timestamp >= QStart /\ memData[QFrom][j].timestamp <= QEnd}}

\* C3: for a timestamp of the queried range that the MemTable and a block of a
\* listed SSTable both hold for the queried series, the result of the query
\* holds exactly one point, with the MemTable's value.
MemTablePrecedence ==
  QueryOk =>
    \A p \in QueryMemPoints :
      (\E q \in QuerySstPoints : q.timestamp = p.timestamp) =>
        /\ Cardinality({j \in 1..Len(lsmRes.out) :
                          lsmRes.out[j].timestamp = p.timestamp}) = 1
        /\ \E j \in 1..Len(lsmRes.out) : lsmRes.out[j] = p

\* C3 witness: the MemTable holds (150, 2.0) for the series, the block of a
\* listed SSTable (150, 1.0), and the query over [90, 210] has returned.
MemAndSstCollide ==
  /\ QueryOk /\ QStart = 90 /\ QEnd = 210
  /\ \E p \in QueryMemPoints : p.timestamp = 150 /\ p.value = F64Two
  /\ \E q \in QuerySstPoints : q.timestamp = 150 /\ q.value = F64One
  /\ \E c \in 1..Len(catalog) : Len(sstables[catalog[c]].sst.meta.blocks) = 1

\* C4: the timestamps of the result of a query ascend strictly.
QueryStrictlyAscending ==
  QueryOk =>
    \A j \in 1..(Len(lsmRes.out) - 1) :
      lsmRes.out[j].timestamp < lsmRes.out[j + 1].timestamp

\* C5: the result of a query holds points of the queried series and range
\* only, each the MemTable's or, at a timestamp the MemTable does not hold,
\* one of a block of a listed SSTable; it holds every such point of the
\* MemTable, and a point at every such timestamp of the SSTables.
QueryExactRange ==
  QueryOk =>
    /\ \A j \in 1..Len(lsmRes.out) :
         LET r == lsmRes.out[j]
         IN  /\ r.timestamp >= QStart /\ r.timestamp <= QEnd
             /\ \/ r \in QueryMemPoints
                \/ /\ \E q \in QuerySstPoints :
                        q.timestamp = r.timestamp /\ q.value = r.value
                   /\ \A p \in QueryMemPoints : p.timestamp # r.timestamp
    /\ \A p \in QueryMemPoints : \E j \in 1..Len(lsmRes.out) : lsmRes.out[j] = p
    /\ \A q \in QuerySstPoints :
         \E j \in 1..Len(lsmRes.out) : lsmRes.out[j].timestamp = q.timestamp

\* The (timestamp, value) pairs of a sequence of points.
TimestampsAndValues(points) ==
  [k \in 1..Len(points) |-> <<points[k].timestamp, points[k].value>>]

\* C38: for the MemTable and the SSTables as they are, a series and an
\* absolute range, execute_query that returns Ok and route_query return the
\* same sequence of (timestamp, value) points: what either returned is what
\* the other returns for the same query.
RouterAgreesWithExecutor ==
  /\ QueryOk =>
       TimestampsAndValues(lsmRes.out) = TimestampsAndValues(RoutePoints(QFrom, QStart, QEnd))
  /\ lsmRes.op = "route_query" =>
       TimestampsAndValues(lsmRes.out) = TimestampsAndValues(ExecutePoints(QFrom, QStart, QEnd))

\* The points inserted for the queried series.
InsertedOfSeries ==
  {inserted[k].point : k \in {j \in 1..Len(inserted) : inserted[j].series = QFrom}}

\* C6: points are inserted, the MemTable is flushed (start_flush, then
\* wait_for_flush returns Ok), the SSTable of the flush is opened and listed
\* with the executor, and the series is queried over the smallest to the
\* largest timestamp inserted for it: the query returns Ok with as many
\* points as were inserted for the series, with their timestamps and values.
FlushQueryRoundTrip ==
  ( /\ lsmRes.op = "query"
    /\ flush.task = "none" /\ flush.done = 1
    /\ \A k \in 1..Len(inserted) : inserted[k].flushes = 0
    /\ \A i \in 1..Len(sstables) : Listed(i)
    /\ InsertedOfSeries # {}
    /\ \A p \in InsertedOfSeries : QStart <= p.timestamp /\ p.timestamp <= QEnd
    /\ \E p \in InsertedOfSeries : p.timestamp = QStart
    /\ \E p \in InsertedOfSeries : p.timestamp = QEnd )
  => /\ lsmRes.res = "Ok"
     /\ Len(lsmRes.out) = Cardinality(InsertedOfSeries)
     /\ \A p \in InsertedOfSeries :
          \E j \in 1..Len(lsmRes.out) :
            lsmRes.out[j].timestamp = p.timestamp /\ lsmRes.out[j].value = p.value

\* A block of the block table of a listed SSTable that read_block fails on.
UnreadableBlockListed ==
  \E c \in 1..Len(catalog) :
    \E index \in 0..(Len(sstables[catalog[c]].sst.meta.blocks) - 1) :
      ReadBlock(sstables[catalog[c]].sst, index).res # "Ok"

\* C34: a query over a list with an SSTable one of whose blocks cannot be
\* read or decoded returns ExecutionFailed, not an Ok result without the
\* points of the block.
QueryFailsOnUnreadableBlock ==
  (lsmRes.op = "query" /\ UnreadableBlockListed) => lsmRes.res = "ExecutionFailed"

(***************************************************************************)
(* Properties of the SSTable metadata.                                     *)
(***************************************************************************)
\* get_tables_in_range's filter on a TableInfo.
InRange(info, start, end) ==
  /\ MinTs(info.min_timestamp, Ts(end)) = info.min_timestamp
  /\ MaxTs(info.max_timestamp, Ts(start)) = info.max_timestamp

\* The points of the blocks handed to write_block for the file of SSTable i.
WrittenPoints(i) ==
  UNION {BlockPoints(sstables[i].sst.wrote[k]) : k \in 1..Len(sstables[i].sst.wrote)}

RECURSIVE WrittenCount(_, _)
WrittenCount(wrote, k) ==
  IF k = 0 THEN 0 ELSE Len(wrote[k].timestamp_deltas) + WrittenCount(wrote, k - 1)

\* C31: the metadata of an SSTable created with SSTable::new, after any
\* write_block calls, matches the blocks written: point_count is the number
\* of points, min_timestamp and max_timestamp are the smallest and the
\* largest timestamp of the points (start_timestamp plus the running sum of
\* the deltas), series_names holds the series names of the blocks, the block
\* table has one entry for each block with its point count and start
\* timestamp, and the table passes get_tables_in_range's filter for every
\* range that holds one of its points.
MetadataMatchesWritten ==
  \A i \in 1..Len(sstables) :
    LET t == sstables[i].sst
    IN  t.since = 0 =>
          /\ t.meta.point_count = WrittenCount(t.wrote, Len(t.wrote))
          /\ \A p \in WrittenPoints(i) :
               /\ MinTs(t.meta.min_timestamp, Ts(p.timestamp)) = t.meta.min_timestamp
               /\ MaxTs(t.meta.max_timestamp, Ts(p.timestamp)) = t.meta.max_timestamp
          /\ WrittenPoints(i) # {} =>
               /\ \E p \in WrittenPoints(i) : t.meta.min_timestamp = Ts(p.timestamp)
               /\ \E p \in WrittenPoints(i) : t.meta.max_timestamp = Ts(p.timestamp)
          /\ Range(t.meta.series_names) =
               UNION {Range(t.wrote[k].series_names) : k \in 1..Len(t.wrote)}
          /\ Len(t.meta.blocks) = Len(t.wrote)
          /\ \A k \in 1..Len(t.wrote) :
               /\ t.meta.blocks[k].point_count = Len(t.wrote[k].timestamp_deltas)
               /\ t.meta.blocks[k].start_timestamp = t.wrote[k].start_timestamp
          /\ \A r \in QueryRanges :
               (\E p \in WrittenPoints(i) : r[1] <= p.timestamp /\ p.timestamp <= r[2])
                 => InRange(TableInfo(i), r[1], r[2])

====
